---- MODULE Spec2Model ----
(***************************************************************************)
(* GL account review workflow of the FinSight application (App.tsx and the *)
(* components and services it calls).                                      *)
(*                                                                         *)
(* React state is modelled as it is written: an event handler reads the    *)
(* `accounts` value of the render that created it (variable `rendered`),   *)
(* while a functional update `setAccounts(prev => ...)` is applied to the  *)
(* latest state (variable `accounts`).  Render commits the latest state to *)
(* the handlers and runs the persistence effects.                          *)
(***************************************************************************)
EXTENDS Integers, Sequences, FiniteSets, TLC

VARIABLES
    accounts,           \* useState<GLAccount[]>: latest state (what updaters see as prev)
    rendered,           \* the `accounts` value closed over by the handlers of the last render
    currentUser,        \* useState<User | null>: the signed-in user's role, or Null
    modalState,         \* useState: <<id>> of the account of the open reject modal, << >> for null
    editAccount,        \* useState: <<id>> of the account of the open edit modal, << >> for null
    correctionLog,      \* useState<CorrectionLogEntry[]>
    storage,            \* localStorage[STORAGE_KEY]: the stored accounts, << >> when the key is absent
    storedCorrections,  \* localStorage[CORRECTION_STORAGE_KEY]
    activeView,         \* useState<View>: "dashboard" or "upload"
    uploadSessions,     \* useState<UploadSession[]>
    selectedFiles,      \* UploadView: useState<File[]>
    clearPrevious,      \* UploadView: useState(true), the "clear previous session" checkbox
    uploadStep,         \* UploadView: "select", "preview" or "result"
    parsedData,         \* UploadView: useState<GLAccount[]>, the proposed batch
    fileSummaries,      \* UploadView: useState<ParsedFileResult[]>
    errors,             \* UploadView: useState<UploadError[]>
    isProcessing,       \* UploadView: useState(false)
    closure,            \* the values closed over by the processFilesData call that is
                        \* awaiting its files, << >> when none is
    serviceCall,        \* the call of a service function made last: its name and arguments
    serviceResult,      \* what that call returned
    activeUploadId,     \* useState<string | null>: <<uploadId>>, << >> for null
    thresholdMetrics,   \* useState<ThresholdMetric[]>: latest state
    balanceSummary,     \* useState<BalanceSheetSummary | null>: <<summary>>, << >> for null
    renderedMetrics,    \* the thresholdMetrics value of the last render
    renderedSummary,    \* the balanceSummary value of the last render
    reportSchedules,    \* useState<ReportSchedule[]>
    reportHistory,      \* useState<ReportJob[]>
    now,                \* the clock behind new Date(), in months
    workbook            \* what generateReportWorkbook was last called with, << >> before

\* the state of UploadView
uploadVars == <<selectedFiles, clearPrevious, uploadStep, parsedData,
                fileSummaries, errors, isProcessing, closure>>

\* the aggregates App derives from accounts, as state and as rendered
aggregateVars == <<thresholdMetrics, balanceSummary, renderedMetrics, renderedSummary>>

\* the report schedules, the jobs run, the clock and the workbook written last
reportVars == <<reportSchedules, reportHistory, now, workbook>>

vars == <<accounts, rendered, currentUser, modalState, editAccount,
          correctionLog, storage, storedCorrections, activeView, uploadSessions,
          uploadVars, serviceCall, serviceResult, activeUploadId, aggregateVars, reportVars>>

\* the calls of the pure functions of the services
serviceVars == <<serviceCall, serviceResult>>

\* the state of App and of UploadView
appState == <<accounts, rendered, currentUser, modalState, editAccount,
              correctionLog, storage, storedCorrections, activeView, uploadSessions,
              uploadVars, activeUploadId, aggregateVars, reportVars>>

-----------------------------------------------------------------------------
(* Values *)

Null == "null"
Undefined == "undefined"
Missing == "<absent key>"

Checker1 == "Checker 1"
Checker2 == "Checker 2"
Checker3 == "Checker 3"
Checker4 == "Checker 4"
CFO == "CFO"

UserRole == {Checker1, Checker2, Checker3, Checker4, CFO}

Pending == "Pending"
Approved == "Approved"
Rejected == "Rejected"
Mismatch == "Mismatch"
Finalized == "Finalized"

ReviewStatus == {Pending, Approved, Rejected, Mismatch, Finalized}

ThresholdLevel == {"C", "M", "L"}

\* workflowSequence; the trailing null represents Finalized
workflowSequence == <<Checker1, Checker2, Checker3, Checker4, CFO, Null>>

-----------------------------------------------------------------------------
(* Bounds and input domains *)

\* audit entries appended to the whole store after Init
MaxOps == 2

AccountIds == {1, 2}
\* ids a handler may be called with: the accounts' and one that is in no store
CallIds == AccountIds \cup {0}

\* reasons typed into the modal / correction form, as character sequences
Reasons == {<< >>, <<" ">>, <<"w", "b">>}
NoReason == <<Undefined>>

\* amounts entered in the correction form (multiples of 100,000)
Amounts == {300000}

\* account numbers typed into the edit form
AccountNumbers == {"402000"}

\* the roles of the users that sign in
Users == {Checker1, Checker2, CFO}

\* files selected for one batch, and batches committed in one run
MaxFiles == 2
MaxUploads == 1

\* upload sessions started in one run of the sessions
MaxSessions == 3

\* report schedules created, report jobs recorded and months passed in one run
MaxSchedules == 2
MaxJobs == 1
MaxTime == 2

ScheduleIds == 1..MaxSchedules

ReportFrequency == {"Monthly", "Quarterly", "Half-Yearly"}

-----------------------------------------------------------------------------
(* String helpers *)

IsSpace(c) == c = " "

RECURSIVE TrimStart(_)
TrimStart(s) ==
    IF s = << >> THEN << >>
    ELSE IF IsSpace(Head(s)) THEN TrimStart(Tail(s)) ELSE s

RECURSIVE TrimEnd(_)
TrimEnd(s) ==
    IF s = << >> THEN << >>
    ELSE IF IsSpace(s[Len(s)]) THEN TrimEnd(SubSeq(s, 1, Len(s) - 1)) ELSE s

\* String.prototype.trim
Trim(s) == TrimEnd(TrimStart(s))

\* JS truthiness of a string | null | undefined value
Truthy(v) == v \notin {Null, Undefined, ""}

\* a ?? b
Coalesce(a, b) == IF a \in {Null, Undefined} THEN b ELSE a

Abs(n) == IF n < 0 THEN -n ELSE n

\* collation rank of the strings the sort keys take (localeCompare, sensitivity base)
StrRank(s) ==
    CASE s = "401000" -> 1
      [] s = "402000" -> 2
      [] s = "403000" -> 3
      [] s = "404000" -> 4
      [] s = "405000" -> 5
      [] s = "Accrued wages" -> 6
      [] s = "Bank loan" -> 7
      [] s = "Cash operating account" -> 8
      [] s = "Finance" -> 9
      [] s = "Inventory" -> 10
      [] s = "Trade payables" -> 11
      [] OTHER -> 0

localeCompare(a, b) ==
    IF StrRank(a) < StrRank(b) THEN -1 ELSE IF StrRank(a) > StrRank(b) THEN 1 ELSE 0

-----------------------------------------------------------------------------
(* Risk scoring (analyticsService.ts) *)

severityFromMistakes(mistakeCount) ==
    IF mistakeCount >= 3 THEN "C"
    ELSE IF mistakeCount = 2 THEN "M"
    ELSE "L"

\* determineThresholdLevel with the mistake count graded by severityFromMistakes alone
determineThresholdLevel_BySeverity(account) ==
    LET amount == Abs(account.normalizedBalance)
    IN  IF amount >= 5000000 \/ account.reviewStatus = "Mismatch"
        THEN "C"
        ELSE IF amount >= 1000000
        THEN "M"
        ELSE severityFromMistakes(account.mistakeCount)

determineThresholdLevel(account) ==
    LET amount == Abs(account.normalizedBalance)
        mistakes == account.mistakeCount
    IN  IF amount >= 5000000 \/ mistakes >= 4 \/ account.reviewStatus = "Mismatch"
        THEN "C"
        ELSE IF amount >= 1000000 \/ mistakes >= 2
        THEN "M"
        ELSE severityFromMistakes(mistakes)

\* The score in hundredths.  classificationConfidence is kept in hundredths and the
\* amounts of the model are multiples of 100,000, so toFixed(2) rounds nothing away.
calculatePriorityScore(account, threshold) ==
    LET amount == Abs(account.normalizedBalance)
        mistakeWeight == account.mistakeCount * 5
        sourceWeight == IF account.classificationSource = "fallback" THEN 10 ELSE 0
        severityWeight == IF threshold = "C" THEN 14 ELSE IF threshold = "M" THEN 11 ELSE 7
        confidencePenalty == 100 - account.classificationConfidence
    IN  ((amount * severityWeight) \div 100000) + mistakeWeight + sourceWeight + confidencePenalty

-----------------------------------------------------------------------------
(* Accounts *)

\* An AuditLogEntry; `action` is the pair <<text, role>> of the template string
\* `${text}${role}` (role is "" for a fixed text), timestamps are left out.
AuditEntry(role, action, from, to, reason) ==
    [role |-> role, action |-> action, from |-> from, to |-> to, reason |-> reason]

\* IngestedAccount with the record created at Checker 2 as Approved
IngestedAccount_StartsApproved(id, accountNumber, name, balance, issues) ==
    [id |-> id,
     glAccountNumber |-> accountNumber,
     glAccount |-> name,
     responsibleDept |-> "Finance",
     reviewStatus |-> Approved,
     currentChecker |-> Checker2,
     auditLog |-> << AuditEntry(Checker1, <<"Data Ingestion", "">>, "N/A", Checker1, NoReason) >>,
     mistakeCount |-> 0,
     classificationConfidence |-> 96,
     classificationSource |-> "historical",
     normalizedBalance |-> balance,
     balanceIssues |-> issues,
     thresholdLevel |-> "L",
     priorityScore |-> 0]

\* The GLAccount record parseWorkbookFile builds for an accepted row
IngestedAccount(id, accountNumber, name, balance, issues) ==
    LET account ==
            [id |-> id,
             glAccountNumber |-> accountNumber,
             glAccount |-> name,
             responsibleDept |-> "Finance",
             reviewStatus |-> Pending,
             currentChecker |-> Checker1,
             auditLog |-> << AuditEntry(Checker1, <<"Data Ingestion", "">>, "N/A", Checker1, NoReason) >>,
             mistakeCount |-> 0,
             classificationConfidence |-> 96,
             classificationSource |-> "historical",
             normalizedBalance |-> balance,
             balanceIssues |-> issues,
             thresholdLevel |-> Undefined,
             priorityScore |-> 0]
        thresholdLevel == determineThresholdLevel(account)
    IN  [account EXCEPT !.thresholdLevel = thresholdLevel,
                        !.priorityScore = calculatePriorityScore(account, thresholdLevel)]

\* Array.prototype.findIndex over workflowSequence, 0-based, -1 when absent
StageIndex(stage) ==
    IF \E i \in 1..Len(workflowSequence) : workflowSequence[i] = stage
    THEN (CHOOSE i \in 1..Len(workflowSequence) : workflowSequence[i] = stage) - 1
    ELSE -1

\* workflowSequence[i] for a 0-based i; reading past the end gives undefined
SequenceAt(i) == IF i + 1 \in 1..Len(workflowSequence) THEN workflowSequence[i + 1] ELSE Undefined

\* NextChecker with the index not advanced: workflowSequence[currentStageIndex]
NextChecker_OffByOne(acc) ==
    LET currentStageIndex == StageIndex(acc.currentChecker)
    IN  IF currentStageIndex # -1 THEN SequenceAt(currentStageIndex) ELSE Null

\* the stage handleApprove's updater moves acc to
NextChecker(acc) ==
    LET currentStageIndex == StageIndex(acc.currentChecker)
    IN  IF currentStageIndex # -1 THEN SequenceAt(currentStageIndex + 1) ELSE Null

\* ApproveAccount with the terminal stage given the status Approved
ApproveAccount_NeverFinalizes(acc, role) ==
    LET nextChecker == NextChecker(acc)
        newStatus == IF nextChecker = Null \/ nextChecker = CFO THEN Approved ELSE Pending
    IN  [acc EXCEPT
            !.reviewStatus = newStatus,
            !.currentChecker = nextChecker,
            !.auditLog = Append(acc.auditLog,
                AuditEntry(role, <<"Approved by ", role>>, acc.currentChecker,
                           IF Truthy(nextChecker) THEN nextChecker ELSE "Finalized", NoReason))]

\* the per-account body of handleApprove's updater
ApproveAccount(acc, role) ==
    LET nextChecker == NextChecker(acc)
        newStatus == IF nextChecker = Null THEN Finalized
                     ELSE IF nextChecker = CFO THEN Approved
                     ELSE Pending
    IN  [acc EXCEPT
            !.reviewStatus = newStatus,
            !.currentChecker = nextChecker,
            !.auditLog = Append(acc.auditLog,
                AuditEntry(role, <<"Approved by ", role>>, acc.currentChecker,
                           IF Truthy(nextChecker) THEN nextChecker ELSE "Finalized", NoReason))]

\* RejectAccount without the reset to Checker 1
RejectAccount_KeepsStage(acc, role, reason) ==
    [acc EXCEPT
        !.reviewStatus = Mismatch,
        !.mistakeCount = acc.mistakeCount + 1,
        !.auditLog = Append(acc.auditLog,
            AuditEntry(role, <<"Rejected by ", role>>, acc.currentChecker, Checker1, reason))]

\* the per-account body of handleReject's updater
RejectAccount(acc, role, reason) ==
    [acc EXCEPT
        !.reviewStatus = Mismatch,
        !.currentChecker = Checker1,
        !.mistakeCount = acc.mistakeCount + 1,
        !.auditLog = Append(acc.auditLog,
            AuditEntry(role, <<"Rejected by ", role>>, acc.currentChecker, Checker1, reason))]

StageLabel(acc) == IF Truthy(acc.currentChecker) THEN acc.currentChecker ELSE "Finalized"

\* EditAccount with the record put up for review again
EditAccount_Reopens(acc, role, updates) ==
    [acc EXCEPT
        !.glAccountNumber = updates.glAccountNumber,
        !.reviewStatus = Pending,
        !.auditLog = Append(acc.auditLog,
            AuditEntry(role, <<"Details updated by CFO", "">>, StageLabel(acc), StageLabel(acc), NoReason))]

\* EditAccount without the audit entry
EditAccount_NoAudit(acc, role, updates) ==
    [acc EXCEPT !.glAccountNumber = updates.glAccountNumber]

\* the per-account body of handleSaveAccountEdits' updater; updates holds the
\* EditableAccountFields of the form
EditAccount(acc, role, updates) ==
    LET updatedAccount ==
            [key \in DOMAIN acc |-> IF key \in DOMAIN updates THEN updates[key] ELSE acc[key]]
    IN  [updatedAccount EXCEPT
            !.auditLog = Append(acc.auditLog,
                AuditEntry(role, <<"Details updated by CFO", "">>,
                           StageLabel(acc), StageLabel(acc), NoReason))]

\* CorrectAccount without the increment of mistakeCount
CorrectAccount_KeepsCount(acc, role, amount, reason) ==
    LET thresholdLevel == determineThresholdLevel([acc EXCEPT !.normalizedBalance = amount])
        priorityScore == calculatePriorityScore(
            [acc EXCEPT !.normalizedBalance = amount, !.thresholdLevel = thresholdLevel],
            thresholdLevel)
    IN  [acc EXCEPT
            !.normalizedBalance = amount,
            !.balanceIssues = << >>,
            !.thresholdLevel = thresholdLevel,
            !.priorityScore = priorityScore,
            !.auditLog = Append(acc.auditLog,
                AuditEntry(role, <<"Balance adjusted", "">>, StageLabel(acc), StageLabel(acc), reason))]

\* CorrectAccount with the account sent back to Checker 1 as a mismatch
CorrectAccount_ResetsStage(acc, role, amount, reason) ==
    [acc EXCEPT
        !.normalizedBalance = amount,
        !.balanceIssues = << >>,
        !.mistakeCount = acc.mistakeCount + 1,
        !.reviewStatus = Mismatch,
        !.currentChecker = Checker1,
        !.auditLog = Append(acc.auditLog,
            AuditEntry(role, <<"Balance adjusted", "">>, StageLabel(acc), StageLabel(acc), reason))]

\* the per-account body of handleApplyCorrection's updater
CorrectAccount(acc, role, amount, reason) ==
    LET thresholdLevel == determineThresholdLevel([acc EXCEPT !.normalizedBalance = amount])
        priorityScore == calculatePriorityScore(
            [acc EXCEPT !.normalizedBalance = amount, !.thresholdLevel = thresholdLevel],
            thresholdLevel)
    IN  [acc EXCEPT
            !.normalizedBalance = amount,
            !.balanceIssues = << >>,
            !.thresholdLevel = thresholdLevel,
            !.priorityScore = priorityScore,
            !.mistakeCount = acc.mistakeCount + 1,
            !.auditLog = Append(acc.auditLog,
                AuditEntry(role, <<"Balance adjusted", "">>, StageLabel(acc), StageLabel(acc), reason))]

\* createCorrectionLogEntry (changeId, deptId, user and timestamp left out)
createCorrectionLogEntry(account, amountAfter, reason) ==
    [glAccountId |-> account.id,
     amountBefore |-> account.normalizedBalance,
     amountAfter |-> amountAfter,
     reason |-> reason,
     impact |-> Abs(account.normalizedBalance - amountAfter)]

\* the comparator of sortAccounts: name, then department, then account number
CompareAccounts(a, b) ==
    LET nameCompare == localeCompare(a.glAccount, b.glAccount)
        deptCompare == localeCompare(a.responsibleDept, b.responsibleDept)
    IN  IF nameCompare # 0 THEN nameCompare
        ELSE IF deptCompare # 0 THEN deptCompare
        ELSE localeCompare(a.glAccountNumber, b.glAccountNumber)

\* insert x after the last element that does not compare greater (stable)
RECURSIVE InsertSorted(_, _)
InsertSorted(sorted, x) ==
    IF sorted = << >> THEN << x >>
    ELSE IF CompareAccounts(sorted[Len(sorted)], x) <= 0 THEN Append(sorted, x)
    ELSE Append(InsertSorted(SubSeq(sorted, 1, Len(sorted) - 1), x), sorted[Len(sorted)])

RECURSIVE SortFrom(_, _)
SortFrom(list, sorted) ==
    IF list = << >> THEN sorted ELSE SortFrom(Tail(list), InsertSorted(sorted, Head(list)))

\* [...list].sort(comparator); Array.prototype.sort is stable
sortAccounts(list) == SortFrom(list, << >>)

\* prev.map(acc => acc.id === id ? f(acc) : acc)
MapAccount(list, id, f(_)) ==
    [i \in 1..Len(list) |-> IF list[i].id = id THEN f(list[i]) ELSE list[i]]

HasAccount(list, id) == \E i \in 1..Len(list) : list[i].id = id

\* list.find(acc => acc.id === id), for an id HasAccount holds of
FindAccount(list, id) == list[CHOOSE i \in 1..Len(list) : list[i].id = id /\ \A j \in 1..(i - 1) : list[j].id # id]

-----------------------------------------------------------------------------
(* Persistence *)

\* JSON.stringify of one account: a key whose value is undefined is dropped
StringifyAccount(acc) ==
    [acc EXCEPT !.currentChecker = IF acc.currentChecker = Undefined THEN Missing ELSE acc.currentChecker]

\* JSON.parse of one stored account: reading a dropped key gives undefined
ParseAccount(raw) ==
    [raw EXCEPT !.currentChecker = IF raw.currentChecker = Missing THEN Undefined ELSE raw.currentChecker]

JSONstringify(list) == [i \in 1..Len(list) |-> StringifyAccount(list[i])]
JSONparse(text) == [i \in 1..Len(text) |-> ParseAccount(text[i])]

\* hydrateAccount, on the fields of the model
hydrateAccount(rawAccount) ==
    LET baseAccount ==
            [rawAccount EXCEPT
                !.reviewStatus = Coalesce(rawAccount.reviewStatus, Pending),
                !.currentChecker = Coalesce(rawAccount.currentChecker, Checker1)]
        thresholdLevel == Coalesce(rawAccount.thresholdLevel, determineThresholdLevel(baseAccount))
    IN  [baseAccount EXCEPT !.thresholdLevel = thresholdLevel]

HydrateAll(list) == [i \in 1..Len(list) |-> hydrateAccount(list[i])]

-----------------------------------------------------------------------------
\* String.prototype.toLowerCase
LowerCaseChar(c) ==
    CASE c = "A" -> "a" []
      c = "B" -> "b" []
      c = "C" -> "c" []
      c = "D" -> "d" []
      c = "E" -> "e" []
      c = "F" -> "f" []
      c = "G" -> "g" []
      c = "H" -> "h" []
      c = "I" -> "i" []
      c = "J" -> "j" []
      c = "K" -> "k" []
      c = "L" -> "l" []
      c = "M" -> "m" []
      c = "N" -> "n" []
      c = "O" -> "o" []
      c = "P" -> "p" []
      c = "Q" -> "q" []
      c = "R" -> "r" []
      c = "S" -> "s" []
      c = "T" -> "t" []
      c = "U" -> "u" []
      c = "V" -> "v" []
      c = "W" -> "w" []
      c = "X" -> "x" []
      c = "Y" -> "y" []
      c = "Z" -> "z"
      [] OTHER -> c

toLowerCase(s) == [i \in 1..Len(s) |-> LowerCaseChar(s[i])]

(* Balance-sheet summary (analyticsService.ts); amounts in thousandths *)

RECURSIVE sumByCategory(_, _)
sumByCategory(list, category) ==
    IF list = << >> THEN 0
    ELSE (IF toLowerCase(Head(list).statusCategory) = toLowerCase(category)
          THEN Head(list).normalizedBalance ELSE 0)
         + sumByCategory(Tail(list), category)

\* Number(x.toFixed(2)) of an amount in thousandths: the nearest hundredth.  An
\* amount half way between two hundredths goes where its double lies; the amounts
\* of the model have no 5 as their third decimal.
toFixed2(x) == IF x < 0 THEN -(((-x + 5) \div 10) * 10) ELSE ((x + 5) \div 10) * 10

\* buildBalanceSheetSummary with the delta left as it is computed
buildBalanceSheetSummary_Unrounded(list) ==
    LET totalAssets == sumByCategory(list, <<"A", "s", "s", "e", "t", "s">>)
        totalLiabilities == sumByCategory(list, <<"L", "i", "a", "b", "i", "l", "i", "t", "i", "e", "s">>)
        totalEquity == sumByCategory(list, <<"E", "q", "u", "i", "t", "y">>)
        delta == totalAssets - (totalLiabilities + totalEquity)
        status == IF Abs(delta) < 1000 THEN "Balanced" ELSE "Mismatch"
    IN  [totalAssets |-> totalAssets,
         totalLiabilities |-> totalLiabilities,
         totalEquity |-> totalEquity,
         delta |-> delta,
         status |-> status,
         suggestions |->
            IF status = "Mismatch"
            THEN IF totalAssets < totalLiabilities + totalEquity
                 THEN <<"Review liability accruals">>
                 ELSE <<"Validate asset valuations">>
            ELSE << >>]

buildBalanceSheetSummary(list) ==
    LET totalAssets == sumByCategory(list, <<"A", "s", "s", "e", "t", "s">>)
        totalLiabilities == sumByCategory(list, <<"L", "i", "a", "b", "i", "l", "i", "t", "i", "e", "s">>)
        totalEquity == sumByCategory(list, <<"E", "q", "u", "i", "t", "y">>)
        delta == toFixed2(totalAssets - (totalLiabilities + totalEquity))
        status == IF Abs(delta) < 1000 THEN "Balanced" ELSE "Mismatch"
    IN  [totalAssets |-> totalAssets,
         totalLiabilities |-> totalLiabilities,
         totalEquity |-> totalEquity,
         delta |-> delta,
         status |-> status,
         suggestions |->
            IF status = "Mismatch"
            THEN IF totalAssets < totalLiabilities + totalEquity
                 THEN <<"Review liability accruals">>
                 ELSE <<"Validate asset valuations">>
            ELSE << >>]

\* sumByCategory(accounts, 'Assets') over the store: no file has a Status column
\* and no stored account a statusCategory, and 'Assets' stands in for both
RECURSIVE TotalBalance(_)
TotalBalance(list) ==
    IF list = << >> THEN 0 ELSE Head(list).normalizedBalance + TotalBalance(Tail(list))

\* buildBalanceSheetSummary over the store, whose amounts are whole and in units:
\* toFixed(2) leaves a whole number as it is
StoreSummary(list) ==
    LET totalAssets == TotalBalance(list)
        totalLiabilities == 0
        totalEquity == 0
        delta == totalAssets - (totalLiabilities + totalEquity)
        status == IF Abs(delta) < 1 THEN "Balanced" ELSE "Mismatch"
    IN  [totalAssets |-> totalAssets,
         totalLiabilities |-> totalLiabilities,
         totalEquity |-> totalEquity,
         delta |-> delta,
         status |-> status,
         suggestions |->
            IF status = "Mismatch"
            THEN IF totalAssets < totalLiabilities + totalEquity
                 THEN <<"Review liability accruals">>
                 ELSE <<"Validate asset valuations">>
            ELSE << >>]

-----------------------------------------------------------------------------
(* Threshold metrics (analyticsService.ts) *)

\* the keys of byDept in the order of their insertion; the department's name
\* stands for its id
RECURSIVE DeptsOf(_)
DeptsOf(list) ==
    IF list = << >> THEN << >>
    ELSE LET before == DeptsOf(SubSeq(list, 1, Len(list) - 1))
             deptId == list[Len(list)].responsibleDept
         IN  IF \E i \in 1..Len(before) : before[i] = deptId THEN before
             ELSE Append(before, deptId)

\* account.thresholdLevel ?? determineThresholdLevel(account)
LevelOf(account) == Coalesce(account.thresholdLevel, determineThresholdLevel(account))

\* the number and the sum of |normalizedBalance| of the accounts of a department
\* on a level
RECURSIVE LevelCount(_, _, _)
LevelCount(list, deptId, level) ==
    IF list = << >> THEN 0
    ELSE (IF Head(list).responsibleDept = deptId /\ LevelOf(Head(list)) = level THEN 1 ELSE 0)
         + LevelCount(Tail(list), deptId, level)

RECURSIVE LevelValue(_, _, _)
LevelValue(list, deptId, level) ==
    IF list = << >> THEN 0
    ELSE (IF Head(list).responsibleDept = deptId /\ LevelOf(Head(list)) = level
          THEN Abs(Head(list).normalizedBalance) ELSE 0)
         + LevelValue(Tail(list), deptId, level)

\* computeThresholdMetrics; averageConfidence is left out
computeThresholdMetrics(list) ==
    LET depts == DeptsOf(list)
    IN  [d \in 1..Len(depts) |->
            [deptId |-> depts[d],
             counts |-> [level \in ThresholdLevel |-> LevelCount(list, depts[d], level)],
             totalAccounts |-> LevelCount(list, depts[d], "C") + LevelCount(list, depts[d], "M")
                               + LevelCount(list, depts[d], "L"),
             criticalValue |-> LevelValue(list, depts[d], "C"),
             mediumValue |-> LevelValue(list, depts[d], "M"),
             lowValue |-> LevelValue(list, depts[d], "L")]]

\* what the effect on [accounts] sets thresholdMetrics and balanceSummary to
MetricsOf(list) == IF Len(list) = 0 THEN << >> ELSE computeThresholdMetrics(list)
SummaryOf(list) ==
    IF Len(list) = 0 THEN << >> ELSE << StoreSummary(list) >>

-----------------------------------------------------------------------------
(* The store after the first load *)

RECURSIVE Repeat(_, _, _)
Repeat(f(_), n, x) == IF n = 0 THEN x ELSE Repeat(f, n - 1, f(x))

ApprovedByItsChecker(acc) == ApproveAccount(acc, acc.currentChecker)

\* INITIAL_ACCOUNTS: one freshly ingested account and one that its four checkers
\* have approved, which waits for the CFO
INITIAL_ACCOUNTS ==
    << IngestedAccount(1, "401000", "Cash operating account", 500000, <<"Detected decimal precision">>),
       Repeat(ApprovedByItsChecker, 4, IngestedAccount(2, "402000", "Trade payables", 1200000, << >>)) >>

RECURSIVE TotalAudit(_)
TotalAudit(list) == IF list = << >> THEN 0 ELSE Len(Head(list).auditLog) + TotalAudit(Tail(list))

\* the bound on the run: another audit entry may still be appended
OpsLeft == TotalAudit(accounts) < TotalAudit(INITIAL_ACCOUNTS) + MaxOps

\* what the persistence effect of a render leaves under STORAGE_KEY
Persisted(list) == IF Len(list) = 0 THEN << >> ELSE JSONstringify(list)

\* the mount effect: the stored accounts, else INITIAL_ACCOUNTS, hydrated and sorted
LoadAccounts(stored) ==
    IF stored # << >> THEN sortAccounts(HydrateAll(JSONparse(stored)))
    ELSE sortAccounts(HydrateAll(INITIAL_ACCOUNTS))

AppInit ==
    /\ accounts = LoadAccounts(<< >>)
    /\ rendered = accounts
    /\ currentUser = Null
    /\ modalState = << >>
    /\ editAccount = << >>
    /\ correctionLog = << >>
    /\ storage = Persisted(accounts)
    /\ storedCorrections = << >>
    /\ activeView = "dashboard"
    /\ uploadSessions = << >>
    /\ selectedFiles = << >>
    /\ clearPrevious = TRUE
    /\ uploadStep = "select"
    /\ parsedData = << >>
    /\ fileSummaries = << >>
    /\ errors = << >>
    /\ isProcessing = FALSE
    /\ closure = << >>
    /\ activeUploadId = << >>
    /\ thresholdMetrics = MetricsOf(accounts)
    /\ balanceSummary = SummaryOf(accounts)
    /\ renderedMetrics = thresholdMetrics
    /\ renderedSummary = balanceSummary
    /\ reportSchedules = << >>
    /\ reportHistory = << >>
    /\ now = 0
    /\ workbook = << >>

\* no service function is being called
Init ==
    /\ AppInit
    /\ serviceCall = [fn |-> "none", returned |-> FALSE]
    /\ serviceResult = << >>

-----------------------------------------------------------------------------
(* Ingestion (UploadView.tsx) *)

REQUIRED_INTERNAL_KEYS == {"glAccountNumber", "glAccount", "responsibleDept"}

\* the internal keys of the columns the model reads
InternalKeys == REQUIRED_INTERNAL_KEYS \cup {"balance", "balanceDate"}

\* A data row of the best sheet: internal key |-> String(cell ?? '').trim()
DataRow(number, name, dept, balance, date) ==
    [glAccountNumber |-> number, glAccount |-> name, responsibleDept |-> dept,
     balance |-> balance, balanceDate |-> date]

\* An uploaded file, as parseWorkbookFile sees it: whether XLSX.read fails on it,
\* the internal keys one of whose aliases is a header of its best sheet (each by
\* one alias, so maxMatchCount is their number), the index of the header row and
\* the data rows below it
UploadedFile(name, unreadable, headers, rows) ==
    [name |-> name, unreadable |-> unreadable, headers |-> headers,
     bestHeaderRowIndex |-> 0, dataRows |-> rows]

\* rowData[key]: the cell under the header mapped to key, undefined without one
Cell(file, row, key) == IF key \in file.headers THEN row[key] ELSE Undefined

\* An UploadError; `kind` stands for the message text, whose variable parts are
\* the account number, the row numbers and the file name
UploadError(row, kind, account, rows, file) ==
    [row |-> row, kind |-> kind, account |-> account, rows |-> rows, file |-> file]

\* The texts of the amounts are sequences of characters; a JS number is the
\* decimal m / 10^k with no trailing zero in its fraction, or NaN.
DigitChars == {"0", "1", "2", "3", "4", "5", "6", "7", "8", "9"}

DigitValue(c) ==
    CASE c = "0" -> 0 [] c = "1" -> 1 [] c = "2" -> 2 [] c = "3" -> 3 [] c = "4" -> 4
      [] c = "5" -> 5 [] c = "6" -> 6 [] c = "7" -> 7 [] c = "8" -> 8 [] c = "9" -> 9

NaN == [nan |-> TRUE, m |-> 0, k |-> 0]

RECURSIVE Number(_, _)
Number(m, k) ==
    IF k > 0 /\ m % 10 = 0 THEN Number(m \div 10, k - 1) ELSE [nan |-> FALSE, m |-> m, k |-> k]

\* the longest prefix of s made of digits
RECURSIVE DigitsPrefix(_)
DigitsPrefix(s) ==
    IF s # << >> /\ Head(s) \in DigitChars THEN <<Head(s)>> \o DigitsPrefix(Tail(s)) ELSE << >>

RECURSIVE DigitsValue(_, _)
DigitsValue(s, value) ==
    IF s = << >> THEN value ELSE DigitsValue(Tail(s), value * 10 + DigitValue(Head(s)))

\* Number.parseFloat on a text without exponent: leading white space, a sign, the
\* longest decimal literal; NaN when no digit is found
parseFloat(text) ==
    LET s == TrimStart(text)
        signed == s # << >> /\ Head(s) \in {"-", "+"}
        body == IF signed THEN Tail(s) ELSE s
        whole == DigitsPrefix(body)
        rest == SubSeq(body, Len(whole) + 1, Len(body))
        fraction == IF rest # << >> /\ Head(rest) = "." THEN DigitsPrefix(Tail(rest)) ELSE << >>
        magnitude == DigitsValue(whole \o fraction, 0)
    IN  IF whole = << >> /\ fraction = << >> THEN NaN
        ELSE Number(IF signed /\ Head(s) = "-" THEN -magnitude ELSE magnitude, Len(fraction))

\* s.replace(/[...]/g, ''): the characters of s that are not in removed
RECURSIVE Without(_, _)
Without(s, removed) ==
    IF s = << >> THEN << >>
    ELSE IF Head(s) \in removed THEN Without(Tail(s), removed)
    ELSE <<Head(s)>> \o Without(Tail(s), removed)

\* s.replace(/[^...]/g, ''): the characters of s that are in kept
RECURSIVE Keeping(_, _)
Keeping(s, kept) ==
    IF s = << >> THEN << >>
    ELSE IF Head(s) \in kept THEN <<Head(s)>> \o Keeping(Tail(s), kept)
    ELSE Keeping(Tail(s), kept)

\* s.includes(part)
Includes(s, part) ==
    \E i \in 1..(Len(s) - Len(part) + 1) : SubSeq(s, i, i + Len(part) - 1) = part

UpperCaseChars ==
    {"A", "B", "C", "D", "E", "F", "G", "H", "I", "J", "K", "L", "M",
     "N", "O", "P", "Q", "R", "S", "T", "U", "V", "W", "X", "Y", "Z"}

\* the keys of CURRENCY_SIGNS; the signs of the rupee, the pound, the euro and
\* the yen are written by name
CurrencySymbols == {"$", "rupee", "pound", "euro", "yen"}

CURRENCY_SIGNS(symbol) ==
    CASE symbol = "$" -> <<"U", "S", "D">>
      [] symbol = "rupee" -> <<"I", "N", "R">>
      [] symbol = "pound" -> <<"G", "B", "P">>
      [] symbol = "euro" -> <<"E", "U", "R">>
      [] symbol = "yen" -> <<"J", "P", "Y">>

DEFAULT_CURRENCY == <<"I", "N", "R">>

\* /[^\d.,()-]/g removed, then the commas, then trim
cleanNumericString(value) ==
    Trim(Without(Keeping(value, DigitChars \cup {".", ",", "(", ")", "-"}), {","}))

\* normalizeAmount with the parentheses left out of cleanedValue
normalizeAmount_CleanedUnsigned(input, currencyHint) ==
    LET trimmed == Trim(input)
        currencySymbol == IF trimmed = << >> THEN "" ELSE Head(trimmed)
        detectedCurrency ==
            IF currencySymbol \in CurrencySymbols THEN CURRENCY_SIGNS(currencySymbol)
            ELSE IF Len(trimmed) >= 3 /\ \A i \in 1..3 : trimmed[i] \in UpperCaseChars
            THEN SubSeq(trimmed, 1, 3)
            ELSE IF currencyHint # << >> THEN currencyHint ELSE DEFAULT_CURRENCY
        cleaned == cleanNumericString(input)
        isNegativeViaParentheses ==
            Len(cleaned) >= 2 /\ Head(cleaned) = "(" /\ cleaned[Len(cleaned)] = ")"
        numericString == Without(cleaned, {"(", ")"})
        parsed == parseFloat(numericString)
        normalized == IF isNegativeViaParentheses THEN Number(-parsed.m, parsed.k) ELSE parsed
    IN  IF input = << >> \/ trimmed = << >>
        THEN [normalized |-> Number(0, 0),
              currency |-> IF currencyHint # << >> THEN currencyHint ELSE DEFAULT_CURRENCY,
              issues |-> <<"Missing amount">>, cleanedValue |-> <<"0">>]
        ELSE IF parsed.nan
        THEN [normalized |-> Number(0, 0), currency |-> detectedCurrency,
              issues |-> <<"Unable to parse numeric value">>, cleanedValue |-> numericString]
        ELSE [normalized |-> normalized, currency |-> detectedCurrency,
              issues |-> IF ~Includes(input, <<".", "0", "0">>) /\ normalized.k # 0
                         THEN <<"Detected decimal precision">> ELSE << >>,
              cleanedValue |-> numericString]

\* normalizeAmount; input is << >> for a null, undefined or empty text, and
\* currencyHint is << >> when none is given
normalizeAmount(input, currencyHint) ==
    LET trimmed == Trim(input)
        currencySymbol == IF trimmed = << >> THEN "" ELSE Head(trimmed)
        detectedCurrency ==
            IF currencySymbol \in CurrencySymbols THEN CURRENCY_SIGNS(currencySymbol)
            ELSE IF Len(trimmed) >= 3 /\ \A i \in 1..3 : trimmed[i] \in UpperCaseChars
            THEN SubSeq(trimmed, 1, 3)
            ELSE IF currencyHint # << >> THEN currencyHint ELSE DEFAULT_CURRENCY
        cleaned == cleanNumericString(input)
        isNegativeViaParentheses ==
            Len(cleaned) >= 2 /\ Head(cleaned) = "(" /\ cleaned[Len(cleaned)] = ")"
        numericString == Without(cleaned, {"(", ")"})
        parsed == parseFloat(numericString)
        normalized == IF isNegativeViaParentheses THEN Number(-parsed.m, parsed.k) ELSE parsed
    IN  IF input = << >> \/ trimmed = << >>
        THEN [normalized |-> Number(0, 0),
              currency |-> IF currencyHint # << >> THEN currencyHint ELSE DEFAULT_CURRENCY,
              issues |-> <<"Missing amount">>, cleanedValue |-> <<"0">>]
        ELSE IF parsed.nan
        THEN [normalized |-> Number(0, 0), currency |-> detectedCurrency,
              issues |-> <<"Unable to parse numeric value">>, cleanedValue |-> cleaned]
        ELSE [normalized |-> normalized, currency |-> detectedCurrency,
              issues |-> IF ~Includes(input, <<".", "0", "0">>) /\ normalized.k # 0
                         THEN <<"Detected decimal precision">> ELSE << >>,
              cleanedValue |-> cleaned]

\* the characters of the texts that stand in the balance cells of the files
Characters(text) ==
    CASE text \in {Undefined, ""} -> << >>
      [] text = "n/a" -> <<"n", "/", "a">>
      [] text = "300000" -> <<"3", "0", "0", "0", "0", "0">>
      [] text = "1200000" -> <<"1", "2", "0", "0", "0", "0", "0">>

\* the store's balances are whole amounts: the integer part of a number
WholeAmount(number) == number.m \div (10 ^ number.k)

\* whether new Date(text) is a valid date, so that toISOString() returns; on an
\* invalid one it throws a RangeError
IsValidDate(text) == text = "2024-12-31"

\* originalRowNum of the data row at the 1-based position i
OriginalRowNum(file, i) == file.bestHeaderRowIndex + (i - 1) + 2

\* duplicateRowsByAccount.get(accNum): the row numbers on which accNum stands
RECURSIVE RowsOfAccount(_, _, _)
RowsOfAccount(file, accNum, i) ==
    IF i > Len(file.dataRows) THEN << >>
    ELSE LET cell == Cell(file, file.dataRows[i], "glAccountNumber")
             rest == RowsOfAccount(file, accNum, i + 1)
         IN  IF Truthy(cell) /\ cell = accNum THEN <<OriginalRowNum(file, i)>> \o rest ELSE rest

duplicateAccountNumbers(file) ==
    { file.dataRows[i].glAccountNumber : i \in { j \in 1..Len(file.dataRows) :
        /\ Truthy(Cell(file, file.dataRows[j], "glAccountNumber"))
        /\ Len(RowsOfAccount(file, file.dataRows[j].glAccountNumber, 1)) > 1 } }

\* the consolidated warnings, one per duplicated number, in the order in which
\* the numbers first occur (the insertion order of the Map)
RECURSIVE DuplicateWarnings(_, _)
DuplicateWarnings(file, i) ==
    IF i > Len(file.dataRows) THEN << >>
    ELSE LET accNum == Cell(file, file.dataRows[i], "glAccountNumber")
             rows == RowsOfAccount(file, accNum, 1)
         IN  IF /\ Truthy(accNum)
                /\ Len(rows) > 1
                /\ rows[1] = OriginalRowNum(file, i)
             THEN <<UploadError(0, "Duplicate G/L Account in file", accNum, rows, file.name)>>
                      \o DuplicateWarnings(file, i + 1)
             ELSE DuplicateWarnings(file, i + 1)

\* seenNumbers.has / .get: seenNumbers is a set of [number, fileName, rows]
SeenHas(seenNumbers, number) == \E e \in seenNumbers : e.number = number
SeenGet(seenNumbers, number) == CHOOSE e \in seenNumbers : e.number = number

\* the errors `Balance issue in '<number>': <issue>`, whose kind is the issue
BalanceIssues(issues, rowNum, accountNumber, file) ==
    [k \in 1..Len(issues) |-> UploadError(rowNum, issues[k], accountNumber, <<rowNum>>, file.name)]

\* The body of dataRows.forEach for the row at position i.  st holds what the loop
\* works on: accounts, fileErrors, seenNumbers, the counter behind getNextId, and
\* whether an exception has left the loop.
ParseRow(file, i, existingNumbers, st) ==
    LET row == file.dataRows[i]
        originalRowNum == OriginalRowNum(file, i)
        rowData == [key \in InternalKeys |-> Cell(file, row, key)]
        accountNumber == rowData.glAccountNumber
        \* the rest of the body once amountResult is there
        Ingest(amountResult) ==
            LET reported == [st EXCEPT !.errors = @ \o BalanceIssues(amountResult.issues,
                                                        originalRowNum, accountNumber, file)]
                \* id: getNextId() is evaluated before balanceDate in the object literal
                numbered == [reported EXCEPT !.nextIdCounter = @ + 1]
            IN  IF Truthy(rowData.balanceDate) /\ ~IsValidDate(rowData.balanceDate)
                THEN [numbered EXCEPT !.threw = TRUE]
                ELSE [numbered EXCEPT
                        !.accounts = Append(@,
                            IngestedAccount(st.nextIdCounter, accountNumber, rowData.glAccount,
                                            WholeAmount(amountResult.normalized),
                                            amountResult.issues)),
                        !.seenNumbers = @ \cup
                            {[number |-> accountNumber, fileName |-> file.name,
                              rows |-> <<originalRowNum>>]}]
    IN  IF \/ \A key \in file.headers \cap InternalKeys : rowData[key] = ""
           \/ Coalesce(rowData.glAccountNumber, "") \in duplicateAccountNumbers(file)
        THEN st
        ELSE IF \E key \in REQUIRED_INTERNAL_KEYS : ~Truthy(rowData[key])
        THEN [st EXCEPT !.errors = Append(@,
                UploadError(originalRowNum, "missing required fields", "", <<originalRowNum>>, file.name))]
        ELSE IF accountNumber \in existingNumbers
        THEN [st EXCEPT !.errors = Append(@,
                UploadError(originalRowNum, "already exists in the current workflow", accountNumber,
                            <<originalRowNum>>, file.name))]
        ELSE IF SeenHas(st.seenNumbers, accountNumber)
        THEN LET seen == SeenGet(st.seenNumbers, accountNumber)
                 pushed == [seen EXCEPT !.rows = Append(@, originalRowNum)]
             IN  [st EXCEPT
                    !.seenNumbers = (@ \ {seen}) \cup {pushed},
                    !.errors = Append(@,
                        UploadError(originalRowNum, "already loaded from", accountNumber,
                                    pushed.rows, pushed.fileName))]
        \* the files have no currency column
        ELSE Ingest(normalizeAmount(Characters(rowData.balance), << >>))

\* dataRows.forEach from position i on; an exception ends it
RECURSIVE ParseRows(_, _, _, _)
ParseRows(file, i, existingNumbers, st) ==
    IF i > Len(file.dataRows) \/ st.threw THEN st
    ELSE ParseRows(file, i + 1, existingNumbers, ParseRow(file, i, existingNumbers, st))

\* a ParsedFileResult, on the fields of the model
ParsedFileResult(file, accs, errs, scanned) ==
    [fileName |-> file.name, accounts |-> accs, errors |-> errs,
     recordsScanned |-> scanned, recordsImported |-> Len(accs)]

\* parseWorkbookFile: whether it threw, the result it returned if it did not, and
\* the counter and the seenNumbers map it shares with the caller as it leaves them
parseWorkbookFile(file, nextIdCounter, existingNumbers, seenNumbers) ==
    LET untouched == [threw |-> FALSE, nextIdCounter |-> nextIdCounter, seenNumbers |-> seenNumbers]
        maxMatchCount == Cardinality(file.headers)
        missingHeaders == REQUIRED_INTERNAL_KEYS \ file.headers
        \* what the function leaves once the loop over the rows has ended in st
        Ended(st) ==
            [threw |-> st.threw, nextIdCounter |-> st.nextIdCounter, seenNumbers |-> st.seenNumbers,
             result |-> ParsedFileResult(file, st.accounts, st.errors, Len(file.dataRows))]
    IN  IF file.unreadable
        THEN [untouched EXCEPT !.threw = TRUE] @@ [result |-> ParsedFileResult(file, << >>, << >>, 0)]
        ELSE IF maxMatchCount < 3
        THEN untouched @@ [result |-> ParsedFileResult(file, << >>,
                <<UploadError(0, "Could not find a valid sheet", "", << >>, file.name)>>, 0)]
        ELSE IF missingHeaders # {}
        THEN untouched @@ [result |-> ParsedFileResult(file, << >>,
                <<UploadError(0, "Missing required headers", "", << >>, file.name)>>,
                Len(file.dataRows))]
        ELSE Ended(ParseRows(file, 1, existingNumbers,
                [accounts |-> << >>, errors |-> DuplicateWarnings(file, 1),
                 seenNumbers |-> seenNumbers, nextIdCounter |-> nextIdCounter, threw |-> FALSE]))

\* new Set(list.map(acc => acc.glAccountNumber))
NumbersOf(list) == { list[i].glAccountNumber : i \in 1..Len(list) }

\* Math.max(0, ...list.map(acc => acc.id))
RECURSIVE MaxId(_)
MaxId(list) ==
    IF list = << >> THEN 0
    ELSE LET rest == MaxId(Tail(list)) IN IF Head(list).id > rest THEN Head(list).id ELSE rest

\* the loop `for (const file of selectedFiles)` of processFilesData from file k on;
\* run holds results, aggregatedAccounts, aggregatedErrors, existingNumbers,
\* seenAccountNumbers and nextIdCounter
RECURSIVE ProcessFrom(_, _, _)
ProcessFrom(files, k, run) ==
    IF k > Len(files) THEN run
    ELSE LET \* the try and catch around the call, once it has ended in parsed
             Collected(parsed) ==
                LET shared == [run EXCEPT !.nextIdCounter = parsed.nextIdCounter,
                                          !.seenAccountNumbers = parsed.seenNumbers]
                IN  IF parsed.threw
                    THEN [shared EXCEPT !.aggregatedErrors = Append(@,
                            UploadError(0, "Failed to process", "", << >>, files[k].name))]
                    ELSE [shared EXCEPT
                            !.results = Append(@, parsed.result),
                            !.aggregatedAccounts = @ \o parsed.result.accounts,
                            !.aggregatedErrors = @ \o parsed.result.errors,
                            !.existingNumbers = @ \cup NumbersOf(parsed.result.accounts)]
         IN  ProcessFrom(files, k + 1,
                Collected(parseWorkbookFile(files[k], run.nextIdCounter, run.existingNumbers,
                                            run.seenAccountNumbers)))

\* what a processFilesData call computes from the values it closed over
ProcessFiles(files, clear, currentAccounts) ==
    LET existingAccountNumbers == IF clear THEN {} ELSE NumbersOf(currentAccounts)
        maxExistingId == IF clear THEN 0 ELSE MaxId(currentAccounts)
    IN  ProcessFrom(files, 1,
            [results |-> << >>, aggregatedAccounts |-> << >>, aggregatedErrors |-> << >>,
             existingNumbers |-> existingAccountNumbers, seenAccountNumbers |-> {},
             nextIdCounter |-> maxExistingId + 1])

-----------------------------------------------------------------------------
(* Rendering and persistence *)

\* A render: the handlers now close over the latest accounts, thresholdMetrics and
\* balanceSummary, the effects on [accounts] and [correctionLog] write
\* localStorage, and the effect on [accounts] sets the aggregates for the render
\* after this one
Commit(list, corrections) ==
    /\ rendered' = list
    /\ storage' = Persisted(list)
    /\ storedCorrections' = corrections
    /\ renderedMetrics' = thresholdMetrics
    /\ renderedSummary' = balanceSummary
    /\ thresholdMetrics' = MetricsOf(list)
    /\ balanceSummary' = SummaryOf(list)

\* state updates are queued that React has not rendered yet
UpdatesPending ==
    \/ rendered # accounts
    \/ storedCorrections # correctionLog
    \/ renderedMetrics # thresholdMetrics
    \/ renderedSummary # balanceSummary

\* UploadView is mounted anew: its state hooks take their initial values, and a
\* processFilesData call still awaiting its files sets the state of no mounted view
UploadViewMounts ==
    /\ selectedFiles' = << >>
    /\ clearPrevious' = TRUE
    /\ uploadStep' = "select"
    /\ parsedData' = << >>
    /\ fileSummaries' = << >>
    /\ errors' = << >>
    /\ isProcessing' = FALSE
    /\ closure' = << >>

Render ==
    /\ UpdatesPending
    /\ Commit(accounts, correctionLog)
    /\ UNCHANGED <<accounts, currentUser, modalState, editAccount, correctionLog,
                   activeView, uploadSessions, uploadVars>>
    /\ UNCHANGED <<serviceVars, activeUploadId, reportVars>>

\* The page is loaded again: React state is rebuilt from localStorage.  A reload is
\* an event of its own, so the render of the events before it has run.
Reload ==
    /\ ~UpdatesPending
    /\ accounts' = LoadAccounts(storage)
    /\ correctionLog' = storedCorrections
    /\ rendered' = accounts'
    /\ storage' = Persisted(accounts')
    /\ storedCorrections' = correctionLog'
    \* the renders of the mount have run
    /\ thresholdMetrics' = MetricsOf(accounts')
    /\ balanceSummary' = SummaryOf(accounts')
    /\ renderedMetrics' = thresholdMetrics'
    /\ renderedSummary' = balanceSummary'
    /\ currentUser' = Null
    /\ modalState' = << >>
    /\ editAccount' = << >>
    /\ activeView' = "dashboard"
    /\ UploadViewMounts
    \* the effect on [uploadSessions] has stored them and the load effect reads
    \* them back; the fields modelled are strings, numbers and booleans
    /\ UNCHANGED uploadSessions
    /\ UNCHANGED <<serviceVars, activeUploadId, reportVars>>

handleLogin(role) ==
    /\ currentUser = Null
    /\ currentUser' = role
    /\ activeView' = "dashboard"
    /\ Commit(accounts, correctionLog)
    /\ UNCHANGED <<accounts, modalState, editAccount, correctionLog,
                   uploadSessions, uploadVars>>
    /\ UNCHANGED <<serviceVars, activeUploadId, reportVars>>

handleLogout ==
    /\ currentUser # Null
    /\ currentUser' = Null
    /\ activeView' = "dashboard"
    /\ UploadViewMounts
    /\ Commit(accounts, correctionLog)
    /\ UNCHANGED <<accounts, modalState, editAccount, correctionLog, uploadSessions>>
    /\ UNCHANGED <<serviceVars, activeUploadId, reportVars>>

-----------------------------------------------------------------------------
(* Workflow handlers *)

\* the checks handleApprove makes on the account it finds in its render's accounts
ApproveAccepted(id) ==
    /\ currentUser # Null
    /\ HasAccount(rendered, id)
    /\ FindAccount(rendered, id).reviewStatus # Finalized
    /\ FindAccount(rendered, id).currentChecker = currentUser

ApproveUpdater(prev, id, role) ==
    LET f(acc) == ApproveAccount(acc, role) IN MapAccount(prev, id, f)

handleApprove(id) ==
    IF ApproveAccepted(id)
    THEN /\ OpsLeft
         /\ accounts' = ApproveUpdater(accounts, id, currentUser)
         /\ UNCHANGED <<rendered, currentUser, modalState, editAccount,
                        correctionLog, storage, storedCorrections>>
    ELSE UNCHANGED vars

openRejectModal(id) ==
    /\ HasAccount(rendered, id)
    /\ modalState' = << id >>
    /\ UNCHANGED <<accounts, rendered, currentUser, editAccount,
                   correctionLog, storage, storedCorrections>>

closeModal ==
    /\ modalState # << >>
    /\ modalState' = << >>
    /\ UNCHANGED <<accounts, rendered, currentUser, editAccount,
                   correctionLog, storage, storedCorrections>>

\* the checks handleReject makes on the account it finds in its render's accounts
RejectAccepted(accountId) ==
    /\ HasAccount(rendered, accountId)
    /\ FindAccount(rendered, accountId).currentChecker = currentUser

RejectUpdater(prev, accountId, role, reason) ==
    LET f(acc) == RejectAccount(acc, role, reason) IN MapAccount(prev, accountId, f)

handleReject(reason, accountId) ==
    IF currentUser = Null
    THEN UNCHANGED vars
    ELSE IF ~RejectAccepted(accountId)
    THEN /\ modalState' = << >>
         /\ UNCHANGED <<accounts, rendered, currentUser, editAccount,
                        correctionLog, storage, storedCorrections>>
    ELSE /\ OpsLeft
         /\ accounts' = RejectUpdater(accounts, accountId, currentUser, reason)
         /\ modalState' = << >>
         /\ UNCHANGED <<rendered, currentUser, editAccount,
                        correctionLog, storage, storedCorrections>>

\* the guard without the trim
ReasonGiven_Untrimmed(reason) == reason # << >>

\* the guard of WorkflowModal.handleSubmit
ReasonGiven(reason) == Trim(reason) # << >>

\* WorkflowModal.handleSubmit, with onSubmitReason = handleReject(reason, modalState.account.id)
handleSubmit(reason) ==
    /\ modalState # << >>
    /\ IF ReasonGiven(reason)
       THEN handleReject(reason, modalState[1])
       ELSE UNCHANGED vars

openEditModal(id) ==
    /\ HasAccount(rendered, id)
    /\ editAccount' = << id >>
    /\ UNCHANGED <<accounts, rendered, currentUser, modalState,
                   correctionLog, storage, storedCorrections>>

closeEditModal ==
    /\ editAccount # << >>
    /\ editAccount' = << >>
    /\ UNCHANGED <<accounts, rendered, currentUser, modalState,
                   correctionLog, storage, storedCorrections>>

EditUpdater(prev, id, role, updates) ==
    LET f(acc) == EditAccount(acc, role, updates) IN MapAccount(prev, id, f)

handleSaveAccountEdits(updates) ==
    IF editAccount = << >> \/ currentUser = Null
    THEN UNCHANGED vars
    ELSE /\ OpsLeft
         /\ accounts' = EditUpdater(accounts, editAccount[1], currentUser, updates)
         /\ editAccount' = << >>
         /\ UNCHANGED <<rendered, currentUser, modalState,
                        correctionLog, storage, storedCorrections>>

CorrectionUpdater(prev, accountId, role, amount, reason) ==
    LET f(acc) == CorrectAccount(acc, role, amount, reason)
    IN  sortAccounts(MapAccount(prev, accountId, f))

handleApplyCorrection(accountId, amount, reason) ==
    IF currentUser = Null \/ ~HasAccount(rendered, accountId)
    THEN UNCHANGED vars
    ELSE /\ OpsLeft
         /\ accounts' = CorrectionUpdater(accounts, accountId, currentUser, amount, reason)
         /\ correctionLog' =
                << createCorrectionLogEntry(FindAccount(rendered, accountId), amount, reason) >>
                \o correctionLog
         /\ UNCHANGED <<rendered, currentUser, modalState, editAccount,
                        storage, storedCorrections>>

\* Dashboard.handleCorrectionSubmit: the form's fields must be filled in
handleCorrectionSubmit(accountId, amount, reason) ==
    IF Trim(reason) = << >>
    THEN UNCHANGED vars
    ELSE handleApplyCorrection(accountId, amount, reason)

-----------------------------------------------------------------------------

\* App renders the dashboard and the modals, and with them the handlers passed to
\* them as props, only for a signed-in user
SignedIn == currentUser # Null

\* {activeView === 'dashboard' && <Dashboard .../>}
DashboardMounted == SignedIn /\ activeView = "dashboard"

\* what the dashboard's and the modals' handlers leave alone
appVars == <<activeView, uploadSessions, uploadVars, serviceVars,
             activeUploadId, aggregateVars, reportVars>>

\* GLAccountTable: onClick={() => onApprove(account.id)}
onApprove(id) == DashboardMounted /\ handleApprove(id) /\ UNCHANGED appVars

\* GLAccountTable: onClick={() => onReject(account.id)}
onReject(id) == DashboardMounted /\ openRejectModal(id) /\ UNCHANGED appVars

\* WorkflowModal: the Submit Mismatch button
onSubmitReason(reason) == SignedIn /\ handleSubmit(reason) /\ UNCHANGED appVars

\* WorkflowModal: onClose
onCloseModal == SignedIn /\ closeModal /\ UNCHANGED appVars

\* GLAccountTable: {isCFO && onEdit && ...} onClick={() => onEdit(account)}
onEdit(id) ==
    /\ DashboardMounted
    /\ currentUser = CFO
    /\ openEditModal(id)
    /\ UNCHANGED appVars

\* EditAccountModal: onSave(formState)
onSave(updates) == SignedIn /\ handleSaveAccountEdits(updates) /\ UNCHANGED appVars

\* EditAccountModal: onClose
onCloseEdit == SignedIn /\ closeEditModal /\ UNCHANGED appVars

\* onApplyCorrection with the Log Correction form rendered for every role
onApplyCorrection_AnyRole(accountId, amount, reason) ==
    DashboardMounted /\ handleCorrectionSubmit(accountId, amount, reason) /\ UNCHANGED appVars

\* Dashboard: the Log Correction form, which is rendered when
\* currentUser.role === UserRole.CFO
onApplyCorrection(accountId, amount, reason) ==
    /\ DashboardMounted
    /\ currentUser = CFO
    /\ handleCorrectionSubmit(accountId, amount, reason)
    /\ UNCHANGED appVars

Next ==
    \/ Render
    \/ Reload
    \/ \E role \in Users : handleLogin(role)
    \/ handleLogout
    \/ \E id \in CallIds : onApprove(id)
    \/ \E id \in AccountIds : onReject(id)
    \/ onCloseModal
    \/ \E reason \in Reasons : onSubmitReason(reason)
    \/ \E id \in AccountIds : onEdit(id)
    \/ onCloseEdit
    \/ \E number \in AccountNumbers : onSave([glAccountNumber |-> number])
    \/ \E id \in AccountIds, amount \in Amounts, reason \in Reasons :
            onApplyCorrection(id, amount, reason)

Spec == Init /\ [][Next]_vars

-----------------------------------------------------------------------------
(* The files a user uploads *)

AllHeaders == {"glAccountNumber", "glAccount", "responsibleDept", "balance", "balanceDate"}

\* two good rows, the first with a number INITIAL_ACCOUNTS holds
FileA ==
    UploadedFile("a.xlsx", FALSE, AllHeaders,
        << DataRow("401000", "Cash operating account", "Finance", "300000", "2024-12-31"),
           DataRow("403000", "Inventory", "Finance", "300000", "") >>)

\* a number FileA and FileD have too, a row without a name, a balance that is no number
FileB ==
    UploadedFile("b.xlsx", FALSE, AllHeaders,
        << DataRow("403000", "Inventory", "Finance", "1200000", ""),
           DataRow("404000", "", "Finance", "300000", ""),
           DataRow("405000", "Accrued wages", "Finance", "n/a", "") >>)

\* one number on two rows
FileC ==
    UploadedFile("c.xlsx", FALSE, AllHeaders,
        << DataRow("404000", "Bank loan", "Finance", "300000", ""),
           DataRow("404000", "Bank loan", "Finance", "300000", ""),
           DataRow("405000", "Accrued wages", "Finance", "", "") >>)

\* a good row, one number on two rows, and a row whose date cell is no date
FileD ==
    UploadedFile("d.xlsx", FALSE, AllHeaders,
        << DataRow("403000", "Inventory", "Finance", "300000", ""),
           DataRow("404000", "Bank loan", "Finance", "300000", ""),
           DataRow("404000", "Bank loan", "Finance", "300000", ""),
           DataRow("405000", "Accrued wages", "Finance", "300000", "n/a") >>)

\* two header aliases only
FileE ==
    UploadedFile("e.xlsx", FALSE, {"glAccountNumber", "glAccount"},
        << DataRow("403000", "Inventory", "", "", "") >>)

\* no department column
FileF ==
    UploadedFile("f.xlsx", FALSE, {"glAccountNumber", "glAccount", "balance"},
        << DataRow("403000", "Inventory", "", "300000", "") >>)

\* not a workbook XLSX.read can read
FileG == UploadedFile("g.xlsx", TRUE, {}, << >>)

Files == {FileA, FileB, FileC, FileD, FileE, FileF, FileG}

\* the files of the runs in which several batches are committed
SessionFiles == {FileA, FileB}

-----------------------------------------------------------------------------
(* UploadView and the handlers App passes to it *)

\* {activeView === 'upload' && <UploadView .../>}
UploadMounted == SignedIn /\ activeView = "upload"

\* Header: onNavigate(view); the view that is left is unmounted
handleNavigate(view) ==
    /\ SignedIn
    /\ activeView # view
    /\ activeView' = view
    /\ UploadViewMounts
    /\ Commit(accounts, correctionLog)
    /\ UNCHANGED <<accounts, currentUser, modalState, editAccount, correctionLog, uploadSessions>>
    /\ UNCHANGED <<serviceVars, activeUploadId, reportVars>>

hasSelections == selectedFiles # << >>

IsSelected(file) == \E i \in 1..Len(selectedFiles) : selectedFiles[i].name = file.name

\* addFiles([file]), for a file of an allowed type
addFiles(file) ==
    /\ UploadMounted
    /\ uploadStep = "select"
    /\ IF IsSelected(file)
       THEN /\ errors' = Append(errors, UploadError(0, "already selected", "", << >>, file.name))
            /\ uploadStep' = "select"
            /\ UNCHANGED selectedFiles
       ELSE /\ selectedFiles' = Append(selectedFiles, file)
            /\ UNCHANGED <<errors, uploadStep>>
    /\ UNCHANGED <<accounts, rendered, currentUser, modalState, editAccount, correctionLog,
                   storage, storedCorrections, activeView, uploadSessions,
                   clearPrevious, parsedData, fileSummaries, isProcessing, closure>>
    /\ UNCHANGED <<serviceVars, activeUploadId, aggregateVars, reportVars>>

\* the checkbox: setClearPrevious(prev => !prev)
toggleClearPrevious ==
    /\ UploadMounted
    /\ uploadStep = "select"
    /\ clearPrevious' = ~clearPrevious
    /\ UNCHANGED <<accounts, rendered, currentUser, modalState, editAccount, correctionLog,
                   storage, storedCorrections, activeView, uploadSessions,
                   selectedFiles, uploadStep, parsedData, fileSummaries, errors,
                   isProcessing, closure>>
    /\ UNCHANGED <<serviceVars, activeUploadId, aggregateVars, reportVars>>

\* Archive with every status left as it is
Archive_KeepsStatus(sessions) == sessions

\* sessions.map(session => ({ ...session, status: 'Archived' }))
Archive(sessions) == [i \in 1..Len(sessions) |-> [sessions[i] EXCEPT !.status = "Archived"]]

\* "Remove existing workflow data", shown when hasPreviousUploads
handleResetUploads ==
    /\ UploadMounted
    /\ uploadStep = "select"
    /\ Len(rendered) > 0
    /\ accounts' = << >>
    /\ uploadSessions' = Archive(uploadSessions)
    /\ activeUploadId' = << >>
    /\ UNCHANGED <<rendered, currentUser, modalState, editAccount, correctionLog,
                   storage, storedCorrections, activeView, uploadVars>>
    /\ UNCHANGED <<serviceVars, aggregateVars, reportVars>>

\* processFilesData up to its first await: the button is disabled while
\* isProcessing; the call goes on with the values of the render it was made in
processFilesData ==
    /\ UploadMounted
    /\ uploadStep = "select"
    /\ ~isProcessing
    /\ hasSelections
    /\ isProcessing' = TRUE
    /\ errors' = << >>
    /\ closure' = [selectedFiles |-> selectedFiles, clearPrevious |-> clearPrevious,
                   currentAccounts |-> rendered]
    /\ UNCHANGED <<accounts, rendered, currentUser, modalState, editAccount, correctionLog,
                   storage, storedCorrections, activeView, uploadSessions,
                   selectedFiles, clearPrevious, uploadStep, parsedData, fileSummaries>>
    /\ UNCHANGED <<serviceVars, activeUploadId, aggregateVars, reportVars>>

\* processFilesDataResumes with the accounts it proposes appended to the store
processFilesDataResumes_Stores ==
    /\ closure # << >>
    /\ LET run == ProcessFiles(closure.selectedFiles, closure.clearPrevious, closure.currentAccounts)
           sortedAccounts == sortAccounts(run.aggregatedAccounts)
       IN  /\ parsedData' = sortedAccounts
           /\ fileSummaries' = run.results
           /\ errors' = run.aggregatedErrors
           /\ uploadStep' = IF Len(sortedAccounts) = 0 THEN "result" ELSE "preview"
           /\ accounts' = sortAccounts(accounts \o sortedAccounts)
    /\ isProcessing' = FALSE
    /\ closure' = << >>
    /\ UNCHANGED <<rendered, currentUser, modalState, editAccount, correctionLog,
                   storage, storedCorrections, activeView, uploadSessions,
                   selectedFiles, clearPrevious>>
    /\ UNCHANGED <<serviceVars, activeUploadId, aggregateVars, reportVars>>

\* processFilesData after the files have been read
processFilesDataResumes ==
    /\ closure # << >>
    /\ LET run == ProcessFiles(closure.selectedFiles, closure.clearPrevious, closure.currentAccounts)
           sortedAccounts == sortAccounts(run.aggregatedAccounts)
       IN  /\ parsedData' = sortedAccounts
           /\ fileSummaries' = run.results
           /\ errors' = run.aggregatedErrors
           /\ uploadStep' = IF Len(sortedAccounts) = 0 THEN "result" ELSE "preview"
    /\ isProcessing' = FALSE
    /\ closure' = << >>
    /\ UNCHANGED <<accounts, rendered, currentUser, modalState, editAccount, correctionLog,
                   storage, storedCorrections, activeView, uploadSessions,
                   selectedFiles, clearPrevious>>
    /\ UNCHANGED <<serviceVars, activeUploadId, aggregateVars, reportVars>>

\* the state handleResetState leaves
ResetState ==
    /\ selectedFiles' = << >>
    /\ parsedData' = << >>
    /\ fileSummaries' = << >>
    /\ errors' = << >>
    /\ isProcessing' = FALSE
    /\ uploadStep' = "select"
    /\ clearPrevious' = TRUE

\* the Back and Start Over buttons of the preview and result steps
handleResetState ==
    /\ UploadMounted
    /\ uploadStep \in {"preview", "result"}
    /\ ResetState
    /\ UNCHANGED <<accounts, rendered, currentUser, modalState, editAccount, correctionLog,
                   storage, storedCorrections, activeView, uploadSessions, closure>>
    /\ UNCHANGED <<serviceVars, activeUploadId, aggregateVars, reportVars>>

\* CommittedAccounts with the last record of the batch left out
CommittedAccounts_Partial(prev, payload) ==
    LET normalizedAccounts == sortAccounts(HydrateAll(payload.accounts))
        part == SubSeq(normalizedAccounts, 1, Len(normalizedAccounts) - 1)
    IN  IF payload.clearPrevious THEN part ELSE sortAccounts(prev \o part)

\* the accounts handleCompleteUpload stores for a payload
CommittedAccounts(prev, payload) ==
    LET normalizedAccounts == sortAccounts(HydrateAll(payload.accounts))
    IN  IF payload.clearPrevious THEN normalizedAccounts
        ELSE sortAccounts(prev \o normalizedAccounts)

\* `UPL-${Date.now()...}-${Math.random()...}`: the identifiers are taken to differ
\* from call to call, and the number of the call stands for them
NewUploadId(sessions) == Len(sessions) + 1

handleCompleteUpload(payload) ==
    /\ uploadSessions' = Append(Archive(uploadSessions),
            [uploadId |-> NewUploadId(uploadSessions),
             recordsCount |-> Len(payload.accounts), status |-> "Active",
             clearPrevious |-> payload.clearPrevious])
    /\ activeUploadId' = << NewUploadId(uploadSessions) >>
    /\ accounts' = CommittedAccounts(accounts, payload)
    /\ activeView' = "dashboard"

\* the Confirm button of the preview step; with the view set to the dashboard
\* UploadView is unmounted
handleConfirm ==
    /\ UploadMounted
    /\ uploadStep = "preview"
    /\ IF Len(parsedData) = 0
       THEN /\ errors' = <<UploadError(0, "No records available to import", "", << >>, "")>>
            /\ uploadStep' = "result"
            /\ UNCHANGED <<accounts, activeView, uploadSessions, selectedFiles, clearPrevious,
                           parsedData, fileSummaries, isProcessing, closure, activeUploadId>>
       ELSE /\ handleCompleteUpload([accounts |-> parsedData, clearPrevious |-> clearPrevious])
            /\ ResetState
            /\ closure' = << >>
    /\ UNCHANGED <<rendered, currentUser, modalState, editAccount, correctionLog,
                   storage, storedCorrections>>
    /\ UNCHANGED <<serviceVars, aggregateVars, reportVars>>

\* the bound on the run: another batch may still be committed
UploadsLeft == Len(uploadSessions) < MaxUploads

\* Header: a navigation button; the upload view is entered while a batch may
\* still be committed
onNavigate(view) ==
    /\ view = "upload" => UploadsLeft
    /\ handleNavigate(view)

\* handleFileChange: one file is picked, between two processFilesData calls;
\* a file already selected once the warnings are empty
handleFileChange(file) ==
    /\ ~isProcessing
    /\ IF IsSelected(file) THEN errors = << >> ELSE Len(selectedFiles) < MaxFiles
    /\ addFiles(file)

\* EditAccountModal: onSave(formState), with the dashboard behind the modal
onSaveOverDashboard(updates) == DashboardMounted /\ onSave(updates)

IngestNext ==
    \/ Render
    \/ handleLogin(CFO)
    \/ \E view \in {"dashboard", "upload"} : onNavigate(view)
    \/ \E file \in Files : handleFileChange(file)
    \/ toggleClearPrevious
    \/ handleResetUploads
    \/ processFilesData
    \/ processFilesDataResumes
    \/ handleResetState
    \/ handleConfirm
    \/ \E id \in AccountIds : onEdit(id)
    \/ \E number \in AccountNumbers : onSaveOverDashboard([glAccountNumber |-> number])

IngestSpec == Init /\ [][IngestNext]_vars

-----------------------------------------------------------------------------
(* Upload sessions: batches committed one after another *)

\* the bound on the run: another session may still be started
SessionsLeft == Len(uploadSessions) < MaxSessions

\* Header: a navigation button
onNavigateToSession(view) ==
    /\ view = "upload" => SessionsLeft
    /\ handleNavigate(view)

SessionNext ==
    \/ Render
    \/ handleLogin(CFO)
    \/ \E view \in {"dashboard", "upload"} : onNavigateToSession(view)
    \/ \E file \in SessionFiles : handleFileChange(file)
    \/ toggleClearPrevious
    \/ handleResetUploads
    \/ processFilesData
    \/ processFilesDataResumes
    \/ handleConfirm

SessionSpec == Init /\ [][SessionNext]_vars

-----------------------------------------------------------------------------
(* Reports and their schedules.  Dates are whole months counted from the start *)
(* of the run, on a day every month has.                                      *)

\* calculateNextRunDate that returns the date it was given
calculateNextRunDate_SameDate(frequency, fromDate) == fromDate

calculateNextRunDate(frequency, fromDate) ==
    IF frequency = "Monthly" THEN fromDate + 1
    ELSE IF frequency = "Quarterly" THEN fromDate + 3
    ELSE fromDate + 6

\* [job, ...prev].slice(0, 25)
RecordJob(prev, job) ==
    LET all == << job >> \o prev
    IN  SubSeq(all, 1, IF Len(all) < 25 THEN Len(all) ELSE 25)

\* What a call of handleGenerateReport leaves of the report history and of the
\* workbook, for the values of the render the callback was made in; throws tells
\* whether generateReportWorkbook throws, in which case no workbook is written.
\* A ReportJob is modelled by its status and scheduleId; scheduleId is << >> when
\* the call names no schedule, and << id >> otherwise.
GenerateReport(history, book, scheduleId, throws) ==
    IF renderedSummary = << >>
    THEN [history |-> history, workbook |-> book]
    ELSE IF throws
    THEN [history |-> RecordJob(history,
                        [status |-> "Failed", scheduleId |-> scheduleId]),
          workbook |-> book]
    ELSE [history |-> RecordJob(history,
                        [status |-> "Success", scheduleId |-> scheduleId]),
          workbook |-> [accounts |-> rendered, metrics |-> renderedMetrics,
                        balanceSummary |-> renderedSummary[1]]]

handleGenerateReport(scheduleId, throws) ==
    LET done == GenerateReport(reportHistory, workbook, scheduleId, throws)
    IN  /\ reportHistory' = done.history
        /\ workbook' = done.workbook

\* the schedule's id is `SCH-${Date.now()...}`: id stands for it, and the ids of
\* the schedules created differ; lastRun is << >> until the schedule has run
handleCreateSchedule(id, frequency) ==
    reportSchedules' = Append(reportSchedules,
        [id |-> id, frequency |-> frequency, nextRun |-> calculateNextRunDate(frequency, now),
         active |-> TRUE, lastRun |-> << >>])

handleToggleSchedule(id) ==
    reportSchedules' =
        [i \in 1..Len(reportSchedules) |->
            IF reportSchedules[i].id = id
            THEN [reportSchedules[i] EXCEPT !.active = ~reportSchedules[i].active]
            ELSE reportSchedules[i]]

\* prev.filter(schedule => schedule.id !== id)
RECURSIVE WithoutSchedule(_, _)
WithoutSchedule(prev, id) ==
    IF prev = << >> THEN << >>
    ELSE IF Head(prev).id = id THEN WithoutSchedule(Tail(prev), id)
    ELSE << Head(prev) >> \o WithoutSchedule(Tail(prev), id)

handleRemoveSchedule(id) == reportSchedules' = WithoutSchedule(reportSchedules, id)

\* the test the interval's callback makes on a schedule
IsDue(schedule) == schedule.active /\ schedule.nextRun <= now

\* prev.map(...) of the interval's callback: the schedules with the due ones run
RunSchedules(prev) ==
    [i \in 1..Len(prev) |->
        IF IsDue(prev[i])
        THEN [prev[i] EXCEPT !.lastRun = << now >>,
                             !.nextRun = calculateNextRunDate(prev[i].frequency, now)]
        ELSE prev[i]]

\* the calls handleGenerateReport(schedule.id) the map makes from schedule i on;
\* failing holds the ids of the schedules for which generateReportWorkbook throws
RECURSIVE GenerateDue(_, _, _, _)
GenerateDue(prev, i, failing, done) ==
    IF i > Len(prev) THEN done
    ELSE GenerateDue(prev, i + 1, failing,
            IF IsDue(prev[i])
            THEN GenerateReport(done.history, done.workbook, << prev[i].id >>, prev[i].id \in failing)
            ELSE done)

\* what the handlers of the reports leave alone
reportFrame == <<accounts, rendered, currentUser, modalState, editAccount, correctionLog,
                 storage, storedCorrections, activeView, uploadSessions, uploadVars,
                 serviceVars, activeUploadId, aggregateVars, now>>

\* the bound on the run: another report job may still be recorded
JobsLeft == Len(reportHistory) < MaxJobs

\* The callback of setInterval, which the effect on [reportSchedules,
\* handleGenerateReport] installs while there are schedules; the effect has run
\* for the last render, so that the callback is the one of that render.
Tick(failing) ==
    /\ reportSchedules # << >>
    /\ JobsLeft
    /\ LET done == GenerateDue(reportSchedules, 1, failing,
                                [history |-> reportHistory, workbook |-> workbook])
       IN  /\ reportSchedules' =
                IF \E i \in 1..Len(reportSchedules) : IsDue(reportSchedules[i])
                THEN RunSchedules(reportSchedules) ELSE reportSchedules
           /\ reportHistory' = done.history
           /\ workbook' = done.workbook
    /\ UNCHANGED reportFrame

\* a month passes
TimePasses ==
    /\ now < MaxTime
    /\ now' = now + 1
    /\ UNCHANGED <<accounts, rendered, currentUser, modalState, editAccount, correctionLog,
                   storage, storedCorrections, activeView, uploadSessions, uploadVars,
                   serviceVars, activeUploadId, aggregateVars,
                   reportSchedules, reportHistory, workbook>>

\* Dashboard: the Generate Consolidated Report button
onGenerateReport(throws) ==
    /\ DashboardMounted
    /\ JobsLeft
    /\ handleGenerateReport(<< >>, throws)
    /\ UNCHANGED <<reportFrame, reportSchedules>>

\* Dashboard.handleScheduleSubmit: the Add Schedule form
onCreateSchedule(id, frequency) ==
    /\ DashboardMounted
    /\ \A i \in 1..Len(reportSchedules) : reportSchedules[i].id # id
    /\ handleCreateSchedule(id, frequency)
    /\ UNCHANGED <<reportFrame, reportHistory, workbook>>

\* Dashboard: the Active / Paused button of a schedule
onToggleSchedule(id) ==
    /\ DashboardMounted
    /\ \E i \in 1..Len(reportSchedules) : reportSchedules[i].id = id
    /\ handleToggleSchedule(id)
    /\ UNCHANGED <<reportFrame, reportHistory, workbook>>

\* Dashboard: the Remove button of a schedule
onRemoveSchedule(id) ==
    /\ DashboardMounted
    /\ \E i \in 1..Len(reportSchedules) : reportSchedules[i].id = id
    /\ handleRemoveSchedule(id)
    /\ UNCHANGED <<reportFrame, reportHistory, workbook>>

ReportNext ==
    \/ Render
    \/ handleLogin(CFO)
    \/ \E view \in {"dashboard", "upload"} : handleNavigate(view)
    \/ handleResetUploads
    \/ \E amount \in Amounts : onApplyCorrection(1, amount, <<"w", "b">>)
    \/ \E throws \in BOOLEAN : onGenerateReport(throws)
    \/ \E id \in ScheduleIds, frequency \in ReportFrequency : onCreateSchedule(id, frequency)
    \/ \E id \in ScheduleIds : onToggleSchedule(id)
    \/ \E id \in ScheduleIds : onRemoveSchedule(id)
    \/ TimePasses
    \/ \E failing \in SUBSET ScheduleIds : Tick(failing)

ReportSpec == Init /\ [][ReportNext]_vars

-----------------------------------------------------------------------------
(* Classification (classificationService.ts) *)

DepartmentKeys == {"FINANCE", "SALES", "OPERATIONS", "PROCUREMENT", "HR", "IT", "UNASSIGNED"}

DEPARTMENT_DIRECTORY(key) ==
    CASE key = "FINANCE" ->
            [deptId |-> "FIN001", deptName |-> <<"F", "i", "n", "a", "n", "c", "e">>,
             defaultLogicId |-> "FIN-CORE-0001"]
      [] key = "SALES" ->
            [deptId |-> "SAL001", deptName |-> <<"S", "a", "l", "e", "s">>,
             defaultLogicId |-> "SAL-REV-0001"]
      [] key = "OPERATIONS" ->
            [deptId |-> "OPR001", deptName |-> <<"O", "p", "e", "r", "a", "t", "i", "o", "n", "s">>,
             defaultLogicId |-> "OPS-CORE-0001"]
      [] key = "PROCUREMENT" ->
            [deptId |-> "PUR001", deptName |-> <<"P", "r", "o", "c", "u", "r", "e", "m", "e", "n", "t">>,
             defaultLogicId |-> "PUR-LIAB-0001"]
      [] key = "HR" ->
            [deptId |-> "HR001", deptName |-> <<"H", "u", "m", "a", "n", " ", "R", "e", "s", "o", "u", "r", "c", "e", "s">>,
             defaultLogicId |-> "HR-EXP-0001"]
      [] key = "IT" ->
            [deptId |-> "IT001", deptName |-> <<"I", "n", "f", "o", "r", "m", "a", "t", "i", "o", "n", " ", "T", "e", "c", "h", "n", "o", "l", "o", "g", "y">>,
             defaultLogicId |-> "IT-OPS-0001"]
      [] key = "UNASSIGNED" ->
            [deptId |-> "UNCLASS", deptName |-> <<"U", "n", "a", "s", "s", "i", "g", "n", "e", "d">>,
             defaultLogicId |-> "GEN-UNCL-0000"]

\* the own properties of DEPARTMENT_SYNONYMS
DEPARTMENT_SYNONYMS ==
    { [name |-> <<"f", "i", "n", "a", "n", "c", "e">>, key |-> "FINANCE"],
      [name |-> <<"t", "r", "e", "a", "s", "u", "r", "y">>, key |-> "FINANCE"],
      [name |-> <<"f", "i", "n", "a", "n", "c", "i", "a", "l", " ", "c", "o", "n", "t", "r", "o", "l">>, key |-> "FINANCE"],
      [name |-> <<"s", "a", "l", "e", "s">>, key |-> "SALES"],
      [name |-> <<"r", "e", "v", "e", "n", "u", "e">>, key |-> "SALES"],
      [name |-> <<"a", "c", "c", "o", "u", "n", "t", "s", " ", "r", "e", "c", "e", "i", "v", "a", "b", "l", "e">>, key |-> "SALES"],
      [name |-> <<"o", "p", "e", "r", "a", "t", "i", "o", "n", "s">>, key |-> "OPERATIONS"],
      [name |-> <<"m", "a", "n", "u", "f", "a", "c", "t", "u", "r", "i", "n", "g">>, key |-> "OPERATIONS"],
      [name |-> <<"p", "r", "o", "d", "u", "c", "t", "i", "o", "n">>, key |-> "OPERATIONS"],
      [name |-> <<"p", "r", "o", "c", "u", "r", "e", "m", "e", "n", "t">>, key |-> "PROCUREMENT"],
      [name |-> <<"p", "u", "r", "c", "h", "a", "s", "i", "n", "g">>, key |-> "PROCUREMENT"],
      [name |-> <<"a", "c", "c", "o", "u", "n", "t", "s", " ", "p", "a", "y", "a", "b", "l", "e">>, key |-> "PROCUREMENT"],
      [name |-> <<"h", "r">>, key |-> "HR"],
      [name |-> <<"h", "u", "m", "a", "n", " ", "r", "e", "s", "o", "u", "r", "c", "e", "s">>, key |-> "HR"],
      [name |-> <<"p", "a", "y", "r", "o", "l", "l">>, key |-> "HR"],
      [name |-> <<"i", "t">>, key |-> "IT"],
      [name |-> <<"t", "e", "c", "h", "n", "o", "l", "o", "g", "y">>, key |-> "IT"],
      [name |-> <<"i", "n", "f", "o", "r", "m", "a", "t", "i", "o", "n", " ", "t", "e", "c", "h", "n", "o", "l", "o", "g", "y">>, key |-> "IT"] }

\* the own properties of HISTORICAL_ACCOUNT_MAP; confidence in hundredths
HISTORICAL_ACCOUNT_MAP ==
    { [name |-> <<"1", "0", "1", "0", "0", "0">>, key |-> "FINANCE", logicId |-> "FIN-CORE-0001",
       confidence |-> 96, notes |-> <<"C", "a", "s", "h", " ", "c", "l", "u", "s", "t", "e", "r">>],
      [name |-> <<"1", "2", "1", "0", "0", "0">>, key |-> "SALES", logicId |-> "SAL-REV-0001",
       confidence |-> 93, notes |-> <<"R", "e", "c", "e", "i", "v", "a", "b", "l", "e", " ", "c", "o", "n", "t", "r", "o", "l">>],
      [name |-> <<"2", "0", "1", "0", "0", "0">>, key |-> "PROCUREMENT", logicId |-> "PUR-LIAB-0003",
       confidence |-> 91, notes |-> <<"P", "a", "y", "a", "b", "l", "e", " ", "l", "e", "d", "g", "e", "r">>],
      [name |-> <<"4", "0", "1", "0", "0", "0">>, key |-> "SALES", logicId |-> "SAL-REV-0401",
       confidence |-> 97, notes |-> <<"R", "e", "v", "e", "n", "u", "e", " ", "d", "i", "r", "e", "c", "t">>],
      [name |-> <<"5", "0", "5", "0", "0", "0">>, key |-> "OPERATIONS", logicId |-> "OPS-COGS-0505",
       confidence |-> 90, notes |-> <<"C", "O", "G", "S", " ", "a", "l", "l", "o", "c", "a", "t", "i", "o", "n">>] }

\* The property names every object literal inherits from Object.prototype:
\* object[name] and `name in object` find them as well as the own properties.
ObjectPrototypeKeys ==
    { <<"c", "o", "n", "s", "t", "r", "u", "c", "t", "o", "r">>,
      <<"t", "o", "S", "t", "r", "i", "n", "g">>,
      <<"v", "a", "l", "u", "e", "O", "f">>,
      <<"h", "a", "s", "O", "w", "n", "P", "r", "o", "p", "e", "r", "t", "y">>,
      <<"i", "s", "P", "r", "o", "t", "o", "t", "y", "p", "e", "O", "f">>,
      <<"p", "r", "o", "p", "e", "r", "t", "y", "I", "s", "E", "n", "u", "m", "e", "r", "a", "b", "l", "e">>,
      <<"t", "o", "L", "o", "c", "a", "l", "e", "S", "t", "r", "i", "n", "g">>,
      <<"_", "_", "p", "r", "o", "t", "o", "_", "_">>,
      <<"_", "_", "d", "e", "f", "i", "n", "e", "G", "e", "t", "t", "e", "r", "_", "_">>,
      <<"_", "_", "d", "e", "f", "i", "n", "e", "S", "e", "t", "t", "e", "r", "_", "_">>,
      <<"_", "_", "l", "o", "o", "k", "u", "p", "G", "e", "t", "t", "e", "r", "_", "_">>,
      <<"_", "_", "l", "o", "o", "k", "u", "p", "S", "e", "t", "t", "e", "r", "_", "_">> }

OwnKeys(table) == { entry.name : entry \in table }

OwnValue(table, name) == CHOOSE entry \in table : entry.name = name

\* CLASSIFICATION_RULES; a pattern is /^ad\d{4}$/ with a in first and d in second
CLASSIFICATION_RULES ==
    << [key |-> "FINANCE", logicId |-> "FIN-CORE-0002", source |-> "^1(0|1)\\d{4}$",
        first |-> {"1"}, second |-> {"0", "1"},
        keywords |-> <<<<"c", "a", "s", "h">>,
                      <<"b", "a", "n", "k">>,
                      <<"t", "r", "e", "a", "s", "u", "r", "y">>,
                      <<"l", "i", "q", "u", "i", "d", "i", "t", "y">>,
                      <<"i", "n", "v", "e", "s", "t", "m", "e", "n", "t">>>>],
       [key |-> "SALES", logicId |-> "SAL-REV-0099", source |-> "^4\\d{5}$",
        first |-> {"4"}, second |-> DigitChars,
        keywords |-> <<<<"s", "a", "l", "e", "s">>,
                      <<"r", "e", "v", "e", "n", "u", "e">>,
                      <<"r", "e", "c", "e", "i", "v", "a", "b", "l", "e">>,
                      <<"i", "n", "v", "o", "i", "c", "e">>>>],
       [key |-> "PROCUREMENT", logicId |-> "PUR-LIAB-0099", source |-> "^2(0|1)\\d{4}$",
        first |-> {"2"}, second |-> {"0", "1"},
        keywords |-> <<<<"p", "a", "y", "a", "b", "l", "e">>,
                      <<"s", "u", "p", "p", "l", "i", "e", "r">>,
                      <<"v", "e", "n", "d", "o", "r">>,
                      <<"p", "r", "o", "c", "u", "r", "e", "m", "e", "n", "t">>>>],
       [key |-> "OPERATIONS", logicId |-> "OPS-COGS-0099", source |-> "^5\\d{5}$",
        first |-> {"5"}, second |-> DigitChars,
        keywords |-> <<<<"c", "o", "g", "s">>,
                      <<"i", "n", "v", "e", "n", "t", "o", "r", "y">>,
                      <<"o", "p", "e", "r", "a", "t", "i", "o", "n", "s">>,
                      <<"l", "o", "g", "i", "s", "t", "i", "c", "s">>,
                      <<"p", "l", "a", "n", "t">>>>],
       [key |-> "HR", logicId |-> "HR-EXP-0099", source |-> "^6\\d{5}$",
        first |-> {"6"}, second |-> DigitChars,
        keywords |-> <<<<"s", "a", "l", "a", "r", "y">>,
                      <<"p", "a", "y", "r", "o", "l", "l">>,
                      <<"b", "e", "n", "e", "f", "i", "t">>,
                      <<"h", "r">>,
                      <<"c", "o", "m", "p", "e", "n", "s", "a", "t", "i", "o", "n">>>>],
       [key |-> "IT", logicId |-> "IT-OPS-0099", source |-> "^7\\d{5}$",
        first |-> {"7"}, second |-> DigitChars,
        keywords |-> <<<<"s", "o", "f", "t", "w", "a", "r", "e">>,
                      <<"l", "i", "c", "e", "n", "s", "e">>,
                      <<"i", "t">>,
                      <<"t", "e", "c", "h", "n", "o", "l", "o", "g", "y">>,
                      <<"h", "a", "r", "d", "w", "a", "r", "e">>>>] >>

\* pattern.test(text)
PatternTest(rule, text) ==
    /\ Len(text) = 6
    /\ text[1] \in rule.first
    /\ text[2] \in rule.second
    /\ \A i \in 3..6 : text[i] \in DigitChars

\* buildEvidence; weight in hundredths, confidence in thousandths
buildEvidence(type, value, weight, confidence) ==
    [type |-> type, value |-> value, weight |-> weight, confidence |-> confidence]

\* resolveDepartmentFromProvided: a DepartmentKey, Null, or "inherited" for the
\* value of a property that DEPARTMENT_SYNONYMS inherits
resolveDepartmentFromProvided(provided) ==
    LET normalised == toLowerCase(Trim(provided))
        directMatch == { key \in DepartmentKeys :
                           toLowerCase(DEPARTMENT_DIRECTORY(key).deptName) = normalised }
    IN  IF provided = << >> THEN Null
        ELSE IF normalised \in OwnKeys(DEPARTMENT_SYNONYMS)
        THEN OwnValue(DEPARTMENT_SYNONYMS, normalised).key
        ELSE IF normalised \in ObjectPrototypeKeys THEN "inherited"
        ELSE IF directMatch # {} THEN CHOOSE key \in directMatch : TRUE
        ELSE Null

\* the keywords of a rule that nameLower includes, in the rule's order
RECURSIVE KeywordHits(_, _)
KeywordHits(keywords, nameLower) ==
    IF keywords = << >> THEN << >>
    ELSE IF Includes(nameLower, Head(keywords))
    THEN <<Head(keywords)>> \o KeywordHits(Tail(keywords), nameLower)
    ELSE KeywordHits(Tail(keywords), nameLower)

\* the body of CLASSIFICATION_RULES.forEach for one rule; score in hundredths
ScoreRule(rule, cleanedNumber, nameLower) ==
    LET localPatterns == IF PatternTest(rule, cleanedNumber) THEN <<rule.source>> ELSE << >>
        localKeywords == KeywordHits(rule.keywords, nameLower)
        boost == IF Len(localPatterns) > 0 /\ Len(localKeywords) > 0 THEN 15 ELSE 0
    IN  [rule |-> rule,
         score |-> 40 + 20 * Len(localPatterns) + 18 * Len(localKeywords) + boost,
         evidence |-> [i \in 1..Len(localPatterns) |->
                          buildEvidence("pattern", <<localPatterns[i]>>, 20, 750)]
                      \o [i \in 1..Len(localKeywords) |->
                          buildEvidence("keyword", localKeywords[i], 18, 720)],
         keywords |-> localKeywords,
         patterns |-> localPatterns]

NoRule == [score |-> 0]

\* CLASSIFICATION_RULES.forEach from rule i on: `if (score > bestScore)`
RECURSIVE BestRule(_, _, _, _)
BestRule(i, best, cleanedNumber, nameLower) ==
    IF i > Len(CLASSIFICATION_RULES) THEN best
    ELSE LET scored == ScoreRule(CLASSIFICATION_RULES[i], cleanedNumber, nameLower)
         IN  BestRule(i + 1, IF scored.score > best.score THEN scored ELSE best,
                      cleanedNumber, nameLower)

\* clampConfidence(0.62 + Math.min(0.25, bestScore / 4)) in hundredths, for the
\* scores a rule can reach, as the double arithmetic gives it
RuleConfidence(score) ==
    CASE score = 40 -> 72
      [] score = 58 -> 77
      [] score = 60 -> 77
      [] score = 76 -> 81
      [] score = 93 -> 85
      [] score = 94 -> 85
      [] OTHER -> 87

Threw == [threw |-> TRUE]

\* what classifyGLAccount returns from its rule scoring and its fallback
ClassifyByRules(cleanedNumber, nameLower) ==
    LET best == BestRule(1, NoRule, cleanedNumber, nameLower)
        fallbackEntry == DEPARTMENT_DIRECTORY("UNASSIGNED")
    IN  IF best # NoRule
        THEN [threw |-> FALSE,
              deptName |-> DEPARTMENT_DIRECTORY(best.rule.key).deptName,
              deptId |-> DEPARTMENT_DIRECTORY(best.rule.key).deptId,
              logicId |-> best.rule.logicId,
              confidence |-> RuleConfidence(best.score),
              source |-> "rule",
              evidence |-> best.evidence,
              keywordsMatched |-> best.keywords,
              patternsMatched |-> best.patterns]
        ELSE [threw |-> FALSE,
              deptName |-> fallbackEntry.deptName,
              deptId |-> fallbackEntry.deptId,
              logicId |-> fallbackEntry.defaultLogicId,
              confidence |-> 35,
              source |-> "fallback",
              evidence |-> <<buildEvidence("fallback", << >>, 30, 350)>>,
              keywordsMatched |-> << >>,
              patternsMatched |-> << >>]

\* classifyGLAccount; providedDept is << >> when none is given.  A property found
\* by inheritance has no key, so that the directory entry is undefined and
\* reading its deptName throws a TypeError.
classifyGLAccount(glAccountNumber, glAccountName, providedDept) ==
    LET cleanedNumber == Trim(glAccountNumber)
        nameLower == toLowerCase(glAccountName)
        providedKey == resolveDepartmentFromProvided(providedDept)
    IN  IF cleanedNumber \in OwnKeys(HISTORICAL_ACCOUNT_MAP)
        THEN LET historical == OwnValue(HISTORICAL_ACCOUNT_MAP, cleanedNumber)
                 directoryEntry == DEPARTMENT_DIRECTORY(historical.key)
             IN  [threw |-> FALSE,
                  deptName |-> directoryEntry.deptName,
                  deptId |-> directoryEntry.deptId,
                  logicId |-> historical.logicId,
                  confidence |-> historical.confidence,
                  source |-> "historical",
                  evidence |-> <<buildEvidence("historical", cleanedNumber, 100,
                                               historical.confidence * 10),
                                 buildEvidence("keyword", historical.notes, 40,
                                               historical.confidence * 8)>>,
                  keywordsMatched |-> << >>,
                  patternsMatched |-> << >>]
        ELSE IF cleanedNumber \in ObjectPrototypeKeys THEN Threw
        ELSE IF providedKey = "inherited" THEN Threw
        ELSE IF providedKey # Null /\ providedKey # "UNASSIGNED"
        THEN LET directoryEntry == DEPARTMENT_DIRECTORY(providedKey)
             IN  [threw |-> FALSE,
                  deptName |-> directoryEntry.deptName,
                  deptId |-> directoryEntry.deptId,
                  logicId |-> directoryEntry.defaultLogicId,
                  confidence |-> 88,
                  source |-> "manual",
                  evidence |-> <<buildEvidence("provided", providedDept, 80, 880)>>,
                  keywordsMatched |-> << >>,
                  patternsMatched |-> << >>]
        ELSE ClassifyByRules(cleanedNumber, nameLower)

-----------------------------------------------------------------------------
(* Calls of the service functions, each on arguments of its own *)

MaxLen == 4

\* the characters of the amount texts tried
AmountChars == {"0", "1", ".", ",", "(", ")", "-", "$", " ", "U"}

\* the texts of at most n characters
Texts(chars, n) == UNION { [1..k -> chars] : k \in 0..n }

AmountExamples ==
    { <<"(", "$", "1", ",", "2", "3", "4", ".", "5", "0", ")">>,
      <<"$", "1", ",", "2", "3", "4", ".", "5", "0">>,
      <<"U", "S", "D", " ", "1", ",", "2", "0", "0", ".", "0", "0">>,
      <<"(", "1", ",", "2", "3", "4", ".", "5", "0", ")">>,
      <<"n", "/", "a">> }

AmountTexts == Texts(AmountChars, MaxLen) \cup AmountExamples

CurrencyHints == { << >>, <<"E", "U", "R">> }

\* every text without a currency hint, the examples with each hint
NormalizeCalls ==
    { [fn |-> "normalizeAmount", input |-> input, currencyHint |-> << >>, returned |-> FALSE] :
        input \in AmountTexts }
    \cup
    { [fn |-> "normalizeAmount", input |-> input, currencyHint |-> hint, returned |-> FALSE] :
        input \in AmountExamples, hint \in CurrencyHints }

\* account numbers: in the historical table (one with spaces around it), matched
\* by a pattern only, matched by nothing, and the name of an inherited property
ClassifiedNumbers ==
    { <<"1", "0", "1", "0", "0", "0">>,
      <<" ", "4", "0", "1", "0", "0", "0", " ">>,
      <<"1", "1", "0", "5", "0", "0">>,
      <<"7", "0", "0", "0", "0", "1">>,
      <<"9", "9", "9", "9", "9", "9">>,
      <<"6", "0", "0", "0", "0">>,
      <<"c", "o", "n", "s", "t", "r", "u", "c", "t", "o", "r">> }

ClassifiedNames ==
    { <<"C", "a", "s", "h", " ", "o", "p", "e", "r", "a", "t", "i", "n", "g", " ", "a", "c", "c", "o", "u", "n", "t">>,
      <<"P", "a", "y", "r", "o", "l", "l", " ", "c", "l", "e", "a", "r", "i", "n", "g">>,
      <<"M", "i", "s", "c", " ", "s", "u", "s", "p", "e", "n", "s", "e">>,
      <<"S", "o", "f", "t", "w", "a", "r", "e", " ", "L", "i", "c", "e", "n", "s", "e">>,
      <<"V", "e", "n", "d", "o", "r", " ", "i", "n", "v", "o", "i", "c", "e", "s">> }

\* department hints: none, a department name, a synonym, Unassigned, an unknown
\* department and the name of an inherited property
DepartmentHints ==
    { <<>>,
      <<"F", "i", "n", "a", "n", "c", "e">>,
      <<" ", "T", "r", "e", "a", "s", "u", "r", "y", " ">>,
      <<"U", "n", "a", "s", "s", "i", "g", "n", "e", "d">>,
      <<"M", "a", "r", "k", "e", "t", "i", "n", "g">>,
      <<"C", "o", "n", "s", "t", "r", "u", "c", "t", "o", "r">> }

ClassifyCalls ==
    { [fn |-> "classifyGLAccount", glAccountNumber |-> number, glAccountName |-> name,
       providedDept |-> dept, returned |-> FALSE] :
        number \in ClassifiedNumbers, name \in ClassifiedNames, dept \in DepartmentHints }

\* balances around the two limits, on both sides of zero
ThresholdBalances == {0, 999999, 1000000, -1000000, 4999999, 5000000, -5000000, 6000000}

MaxMistakes == 5

ThresholdCalls ==
    { [fn |-> "determineThresholdLevel",
       account |-> [normalizedBalance |-> balance, mistakeCount |-> mistakes,
                    reviewStatus |-> status],
       returned |-> FALSE] :
        balance \in ThresholdBalances, mistakes \in 0..MaxMistakes, status \in ReviewStatus }

MaxSheet == 3

\* status categories as they are written in the files
SheetCategories ==
    { <<"A", "s", "s", "e", "t", "s">>, <<"l", "i", "a", "b", "i", "l", "i", "t", "i", "e", "s">>, <<"E", "Q", "U", "I", "T", "Y">>, <<"I", "n", "c", "o", "m", "e">> }

\* balances in thousandths: 100, 60, 40 and 0.996
SheetBalances == {100000, 60000, 40000, 996}

SheetAccounts ==
    [statusCategory : SheetCategories, normalizedBalance : SheetBalances]

BalanceSheetCalls ==
    { [fn |-> "buildBalanceSheetSummary", accounts |-> list, returned |-> FALSE] :
        list \in UNION { [1..n -> SheetAccounts] : n \in 0..MaxSheet } }

ServiceCalls == NormalizeCalls \cup ClassifyCalls \cup ThresholdCalls \cup BalanceSheetCalls

\* a call of a service function has been made
ServiceInit ==
    /\ AppInit
    /\ serviceCall \in ServiceCalls
    /\ serviceResult = << >>

Returns(result) ==
    /\ ~serviceCall.returned
    /\ serviceCall' = [serviceCall EXCEPT !.returned = TRUE]
    /\ serviceResult' = result
    /\ UNCHANGED appState

normalizeAmountReturns ==
    /\ serviceCall.fn = "normalizeAmount"
    /\ Returns(normalizeAmount(serviceCall.input, serviceCall.currencyHint))

classifyGLAccountReturns ==
    /\ serviceCall.fn = "classifyGLAccount"
    /\ Returns(classifyGLAccount(serviceCall.glAccountNumber, serviceCall.glAccountName,
                                 serviceCall.providedDept))

determineThresholdLevelReturns ==
    /\ serviceCall.fn = "determineThresholdLevel"
    /\ Returns(determineThresholdLevel(serviceCall.account))

buildBalanceSheetSummaryReturns ==
    /\ serviceCall.fn = "buildBalanceSheetSummary"
    /\ Returns(buildBalanceSheetSummary(serviceCall.accounts))

ServiceNext ==
    \/ normalizeAmountReturns
    \/ classifyGLAccountReturns
    \/ determineThresholdLevelReturns
    \/ buildBalanceSheetSummaryReturns

ServiceSpec == ServiceInit /\ [][ServiceNext]_vars

-----------------------------------------------------------------------------
(* Vocabulary of the properties *)

Acct(list, id) == FindAccount(list, id)

InStore(id) == HasAccount(accounts, id) /\ HasAccount(accounts', id)

\* a step of handleApprove(id) taken by the signed-in user
ApproveStep(id) == SignedIn /\ handleApprove(id)

\* a step of the reject modal's submit for account id
RejectStep(id, reason) == SignedIn /\ modalState = << id >> /\ handleSubmit(reason)

\* a step of the edit modal's save for account id
EditStep(id, updates) == SignedIn /\ editAccount = << id >> /\ handleSaveAccountEdits(updates)

\* a step of the correction form's submit for account id
CorrectionStep(id, amount, reason) == SignedIn /\ handleCorrectionSubmit(id, amount, reason)

\* the step changed the stored record of account id
Changed(id) == Acct(accounts', id) # Acct(accounts, id)

IsPrefix(s, t) == Len(s) <= Len(t) /\ SubSeq(t, 1, Len(s)) = s

LastEntry(acc) == acc.auditLog[Len(acc.auditLog)]

Stages == UserRole \cup {Null}

-----------------------------------------------------------------------------
(* C1 *)

SuccessorStage(stage) ==
    CASE stage = Checker1 -> Checker2
      [] stage = Checker2 -> Checker3
      [] stage = Checker3 -> Checker4
      [] stage = Checker4 -> CFO
      [] stage = CFO -> Null

StatusOnArrival(stage) ==
    IF stage = Null THEN Finalized ELSE IF stage = CFO THEN Approved ELSE Pending

ApprovalChain == <<Checker1, Checker2, Checker3, Checker4, CFO>>

C5_RejectOutcome ==
    [][\A id \in AccountIds : \A reason \in Reasons :
          ( /\ InStore(id)
            /\ RejectStep(id, reason)
            /\ Changed(id)
            /\ Acct(accounts, id).currentChecker = currentUser )
          => LET before == Acct(accounts, id)
                 after == Acct(accounts', id)
             IN  /\ after.reviewStatus = Mismatch
                 /\ after.currentChecker = Checker1
                 /\ after.mistakeCount = before.mistakeCount + 1
                 /\ Len(after.auditLog) = Len(before.auditLog) + 1
                 /\ IsPrefix(before.auditLog, after.auditLog)
                 /\ LastEntry(after).reason = reason
                 /\ LastEntry(after).action = <<"Rejected by ", currentUser>>]_vars

\* Checker 2 has rejected an account that stood at Checker 2, giving a reason
C5_WitnessRejectedAtChecker2 ==
    \E i \in 1..Len(accounts) :
        /\ Len(accounts[i].auditLog) >= 2
        /\ LastEntry(accounts[i]).action = <<"Rejected by ", Checker2>>
        /\ LastEntry(accounts[i]).from = Checker2
        /\ LastEntry(accounts[i]).reason = <<"w", "b">>
        /\ accounts[i].reviewStatus = Mismatch
        /\ accounts[i].currentChecker = Checker1
        /\ accounts[i].mistakeCount = 1

(* C6 *)

\* C6: a Reject with an empty (or blank) reason changes nothing: the account's
\* stage, status, mistakeCount and auditLog stay as they were.
C6_EmptyReasonIsNoOp ==
    [][\A id \in AccountIds : \A reason \in Reasons :
          ( /\ InStore(id)
            /\ RejectStep(id, reason)
            /\ Trim(reason) = << >> )
          => /\ ~Changed(id)
             /\ accounts' = accounts]_vars

\* the reject modal is open for an account the signed-in user is the checker of, so
\* that a reason would let the reject through
C6_WitnessModalOpenForChecker ==
    \E id \in AccountIds :
        /\ SignedIn
        /\ modalState = << id >>
        /\ HasAccount(rendered, id)
        /\ Acct(rendered, id).currentChecker = currentUser
        /\ Acct(accounts, id).currentChecker = currentUser
        /\ OpsLeft

(* C7 *)

C8_NullStageIsFinalized ==
    \A i \in 1..Len(accounts) :
        accounts[i].currentChecker = Null => accounts[i].reviewStatus = Finalized

\* the CFO has approved an account: its stage is null
C8_WitnessNullStage ==
    \E i \in 1..Len(accounts) :
        /\ accounts[i].currentChecker = Null
        /\ LastEntry(accounts[i]).action = <<"Approved by ", CFO>>

(* C9 *)

\* a step of one of the dashboard's handlers (not a reload, sign-in or sign-out)
WorkflowStep == SignedIn /\ currentUser' = currentUser

\* C9: the audit log is append-only: no step removes, reorders or alters an entry;
\* an approve, reject, correction or edit that changes the account appends exactly
\* one entry; an action that fails appends none.
C9_AuditAppendOnly ==
    [][\A id \in AccountIds :
          InStore(id) =>
            LET before == Acct(accounts, id).auditLog
                after == Acct(accounts', id).auditLog
            IN  /\ IsPrefix(before, after)
                /\ Len(after) <= Len(before) + 1
                /\ (WorkflowStep /\ Changed(id)) => Len(after) = Len(before) + 1
                /\ (ApproveStep(id) /\ ~ApproveAccepted(id)) => after = before
                /\ \A reason \in Reasons :
                       (RejectStep(id, reason) /\ ~(ReasonGiven(reason) /\ RejectAccepted(id)))
                           => after = before]_vars

\* an account was edited and then corrected: two entries follow its ingestion
C9_WitnessTwoAppends ==
    \E i \in 1..Len(accounts) :
        /\ Len(accounts[i].auditLog) = 3
        /\ accounts[i].auditLog[1].action = <<"Data Ingestion", "">>
        /\ accounts[i].auditLog[2].action = <<"Details updated by CFO", "">>
        /\ accounts[i].auditLog[3].action = <<"Balance adjusted", "">>

(* C10 *)

\* the step is a reject or a correction of account id
RejectOrCorrection(id) ==
    \/ \E reason \in Reasons : RejectStep(id, reason)
    \/ \E amount \in Amounts, reason \in Reasons : CorrectionStep(id, amount, reason)

\* C10: mistakeCount never decreases; it grows only by 1 and only in a Reject or a
\* Correction, each of which adds 1 when it goes through; Approve and Edit leave it.
C10_MistakeCountMonotone ==
    [][\A id \in AccountIds :
          InStore(id) =>
            LET before == Acct(accounts, id).mistakeCount
                after == Acct(accounts', id).mistakeCount
            IN  /\ after \in {before, before + 1}
                /\ after = before + 1 => RejectOrCorrection(id)
                /\ (RejectOrCorrection(id) /\ Changed(id)) => after = before + 1
                /\ (ApproveStep(id) \/ \E number \in AccountNumbers :
                                          EditStep(id, [glAccountNumber |-> number]))
                       => after = before]_vars

\* an account was rejected and then corrected: its mistakeCount is 2
C10_WitnessRejectedAndCorrected ==
    \E i \in 1..Len(accounts) :
        /\ accounts[i].mistakeCount = 2
        /\ \E k \in 1..Len(accounts[i].auditLog) :
               accounts[i].auditLog[k].action[1] = "Rejected by "
        /\ LastEntry(accounts[i]).action = <<"Balance adjusted", "">>

-----------------------------------------------------------------------------
(* Ingestion: vocabulary *)

\* the step is the Confirm of a batch that is stored
CommitStep ==
    /\ UploadMounted
    /\ uploadStep = "preview"
    /\ Len(parsedData) > 0
    /\ handleConfirm

\* the step is the end of a processFilesData call
ProcessedStep == closure # << >> /\ processFilesDataResumes

\* the records of a list whose account number is number
WithNumber(list, number) == { i \in 1..Len(list) : list[i].glAccountNumber = number }

\* the errors of a list of a kind about an account number
ErrorsAbout(list, kind, number) ==
    { i \in 1..Len(list) : list[i].kind = kind /\ list[i].account = number }

\* C11: in every reachable state no two accounts of the store have the same account
\* number, whatever batches were committed (clearing or appending) and whatever
\* edits were saved.
C11_AccountNumbersUnique ==
    \A i, j \in 1..Len(accounts) :
        i # j => accounts[i].glAccountNumber # accounts[j].glAccountNumber

\* C12: in every reachable state no two accounts of the store have the same id,
\* whatever the clear/append choice was when the batch was processed and when it
\* was committed.
C12_IdsUnique ==
    \A i, j \in 1..Len(accounts) : i # j => accounts[i].id # accounts[j].id

\* the file reaches the row loop: XLSX.read reads it and its headers are accepted
HeadersAccepted(file) ==
    /\ ~file.unreadable
    /\ Cardinality(file.headers) >= 3
    /\ REQUIRED_INTERNAL_KEYS \subseteq file.headers

\* the row has its mandatory fields, a date cell that is empty or a date, and a
\* number that stands on no other row of its file
ValidRow(file, i) ==
    /\ HeadersAccepted(file)
    /\ \A key \in REQUIRED_INTERNAL_KEYS : Truthy(file.dataRows[i][key])
    /\ file.dataRows[i].balanceDate \in {"", "2024-12-31"}
    /\ file.dataRows[i].glAccountNumber \notin duplicateAccountNumbers(file)

\* number stands on a valid row of the file
HasValidRow(file, number) ==
    \E i \in 1..Len(file.dataRows) :
        ValidRow(file, i) /\ file.dataRows[i].glAccountNumber = number

AllNumbers == {"401000", "402000", "403000", "404000", "405000"}

\* C13: when processFilesData ends and an account number that is not in the store
\* stands on valid rows of two files of the batch, the proposed batch holds exactly
\* one record with that number and a warning about the number is logged.
C13_FirstOccurrenceWins ==
    [][ProcessedStep =>
        \A number \in AllNumbers \ NumbersOf(closure.currentAccounts) :
            (\E k1, k2 \in 1..Len(closure.selectedFiles) :
                /\ k1 < k2
                /\ HasValidRow(closure.selectedFiles[k1], number)
                /\ HasValidRow(closure.selectedFiles[k2], number))
            => /\ Cardinality(WithNumber(parsedData', number)) = 1
               /\ \E e \in 1..Len(errors') :
                    /\ errors'[e].account = number
                    /\ errors'[e].kind \in {"already exists in the current workflow",
                                            "already loaded from"}]_vars

\* C14: when processFilesData ends, for a file whose headers are accepted and an
\* account number on more than one of its rows, no record with that number comes
\* from the file and exactly one warning names the number with all its rows.
C14_DuplicatesInFile ==
    [][ProcessedStep =>
        \A k \in 1..Len(closure.selectedFiles) :
            LET file == closure.selectedFiles[k] IN
            HeadersAccepted(file) =>
                \A number \in duplicateAccountNumbers(file) :
                    /\ (\A k2 \in 1..Len(closure.selectedFiles) :
                            k2 # k => ~HasValidRow(closure.selectedFiles[k2], number))
                        => WithNumber(parsedData', number) = {}
                    /\ Cardinality({ e \in 1..Len(errors') :
                            /\ errors'[e].kind = "Duplicate G/L Account in file"
                            /\ errors'[e].account = number
                            /\ errors'[e].file = file.name
                            /\ errors'[e].rows = RowsOfAccount(file, number, 1) }) = 1
                    /\ Cardinality({ e \in 1..Len(errors') :
                            /\ errors'[e].kind = "Duplicate G/L Account in file"
                            /\ errors'[e].account = number
                            /\ errors'[e].file = file.name }) = 1]_vars

\* the batch without its k-th file
WithoutFile(files, k) == SubSeq(files, 1, k - 1) \o SubSeq(files, k + 1, Len(files))

\* what parseWorkbookFile does with the k-th file of the batch
OutcomeOfFile(files, k, clear, currentAccounts) ==
    LET run == ProcessFiles(SubSeq(files, 1, k - 1), clear, currentAccounts)
    IN  parseWorkbookFile(files[k], run.nextIdCounter, run.existingNumbers, run.seenAccountNumbers)

\* the k-th file is rejected: too few headers, a mandatory column missing, or an
\* exception while it is processed
IsRejected(files, k, clear, currentAccounts) ==
    \/ ~HeadersAccepted(files[k])
    \/ OutcomeOfFile(files, k, clear, currentAccounts).threw

\* C15: when processFilesData ends, a rejected file has contributed no record, and
\* the account numbers of the proposed batch are those the batch without that file
\* gives.
C15_RejectedFileIsIsolated ==
    [][ProcessedStep =>
        \A k \in 1..Len(closure.selectedFiles) :
            IsRejected(closure.selectedFiles, k, closure.clearPrevious, closure.currentAccounts)
            => NumbersOf(parsedData') =
                 NumbersOf(ProcessFiles(WithoutFile(closure.selectedFiles, k),
                                        closure.clearPrevious,
                                        closure.currentAccounts).aggregatedAccounts)]_vars

\* C16: when processFilesData ends, every valid row of a file whose headers are
\* accepted is imported, whatever is wrong with the other rows of the file, if its
\* number is neither in the store nor in another file of the batch.
C16_RowProblemsAreLocal ==
    [][ProcessedStep =>
        \A k \in 1..Len(closure.selectedFiles) :
            LET file == closure.selectedFiles[k] IN
            \A i \in 1..Len(file.dataRows) :
                ( /\ ValidRow(file, i)
                  /\ file.dataRows[i].glAccountNumber \notin NumbersOf(closure.currentAccounts)
                  /\ \A k2 \in 1..Len(closure.selectedFiles) :
                        k2 # k => \A j \in 1..Len(closure.selectedFiles[k2].dataRows) :
                            closure.selectedFiles[k2].dataRows[j].glAccountNumber
                                # file.dataRows[i].glAccountNumber )
                => WithNumber(parsedData', file.dataRows[i].glAccountNumber) # {}]_vars

\* a step of UploadView that selects, processes or previews files
ProcessingStep ==
    \/ \E file \in Files : handleFileChange(file)
    \/ toggleClearPrevious
    \/ processFilesData
    \/ ProcessedStep
    \/ (UploadMounted /\ handleResetState)

\* C17: selecting and processing files and showing or leaving the preview leave the
\* accounts of the store as they are; in the upload view the store changes only
\* when the proposed batch is confirmed (or the store is emptied by its reset).
C17_ProcessingLeavesStore ==
    [][ /\ ProcessingStep => UNCHANGED <<accounts, rendered, storage>>
        /\ (activeView = "upload" /\ accounts' # accounts)
              => (CommitStep \/ handleResetUploads) ]_vars

\* a batch of two records or more is proposed and the store is as it was loaded
C17_WitnessPreviewStoreUntouched ==
    /\ uploadStep = "preview"
    /\ Len(parsedData) >= 2
    /\ accounts = LoadAccounts(<< >>)
    /\ uploadSessions = << >>

\* record is an element of list
In(list, record) == \E i \in 1..Len(list) : list[i] = record

\* C18: a batch reaches the store in one step: if a step puts one record of the
\* proposed batch into the store it puts all of them, and the store is then the
\* batch alone when clearing, and all the old accounts with the batch otherwise.
C18_CommitIsAtomic ==
    [][LET batch == HydrateAll(parsedData)
       IN  (\E b \in 1..Len(batch) : In(accounts', batch[b]) /\ ~In(accounts, batch[b]))
           => /\ \A b \in 1..Len(batch) : In(accounts', batch[b])
              /\ clearPrevious => \A a \in 1..Len(accounts') : In(batch, accounts'[a])
              /\ ~clearPrevious =>
                    /\ \A a \in 1..Len(accounts) : In(accounts', accounts[a])
                    /\ Len(accounts') = Len(accounts) + Len(batch)]_vars

\* a batch of two records was appended to the two accounts of the store
C18_WitnessBatchAppended ==
    /\ Len(uploadSessions) = 1
    /\ uploadSessions[1].recordsCount = 2
    /\ ~uploadSessions[1].clearPrevious
    /\ Len(accounts) = 4

\* C19: every record of the proposed batch is at Checker 1 with status Pending,
\* mistakeCount 0 and an audit log of exactly one entry, the ingestion entry.
C19_ProposedRecordsStartFresh ==
    \A i \in 1..Len(parsedData) :
        /\ parsedData[i].currentChecker = Checker1
        /\ parsedData[i].reviewStatus = Pending
        /\ parsedData[i].mistakeCount = 0
        /\ Len(parsedData[i].auditLog) = 1
        /\ parsedData[i].auditLog[1].action = <<"Data Ingestion", "">>
        /\ parsedData[i].auditLog[1].to = Checker1

\* a batch with records from two files is proposed
C19_WitnessBatchProposed ==
    /\ uploadStep = "preview"
    /\ Len(fileSummaries) = 2
    /\ \A k \in 1..2 : fileSummaries[k].recordsImported >= 1

\* C20: a Correction with amount a on an account, at whatever stage it is, sets
\* normalizedBalance to a, adds 1 to mistakeCount, empties balanceIssues and appends
\* one 'Balance adjusted' entry; currentChecker and reviewStatus stay as they are.
C20_CorrectionFrame ==
    [][\A id \in AccountIds, amount \in Amounts, reason \in Reasons :
          (InStore(id) /\ CorrectionStep(id, amount, reason) /\ Changed(id))
          => LET before == Acct(accounts, id)
                 after == Acct(accounts', id)
             IN  /\ after.normalizedBalance = amount
                 /\ after.mistakeCount = before.mistakeCount + 1
                 /\ after.balanceIssues = << >>
                 /\ Len(after.auditLog) = Len(before.auditLog) + 1
                 /\ IsPrefix(before.auditLog, after.auditLog)
                 /\ LastEntry(after).action = <<"Balance adjusted", "">>
                 /\ LastEntry(after).reason = reason
                 /\ after.currentChecker = before.currentChecker
                 /\ after.reviewStatus = before.reviewStatus]_vars

\* a finalized account, whose stage is null, was corrected
C20_WitnessFinalizedCorrected ==
    \E i \in 1..Len(accounts) :
        /\ accounts[i].currentChecker = Null
        /\ accounts[i].reviewStatus = Finalized
        /\ accounts[i].normalizedBalance = 300000
        /\ accounts[i].balanceIssues = << >>
        /\ LastEntry(accounts[i]).action = <<"Balance adjusted", "">>

-----------------------------------------------------------------------------
(* Corrections and edits *)

\* the step appended a 'Balance adjusted' entry to the audit log of account id
BalanceAdjusted(id) ==
    /\ InStore(id)
    /\ Len(Acct(accounts', id).auditLog) > Len(Acct(accounts, id).auditLog)
    /\ LastEntry(Acct(accounts', id)).action = <<"Balance adjusted", "">>

\* C21: a Correction is applied only when the acting user is the CFO: a step taken
\* while any other role (or nobody) is signed in neither adds a 'Balance adjusted'
\* entry to an account nor changes the correction log.
C21_OnlyCfoCorrects ==
    [][currentUser # CFO
          => /\ correctionLog' = correctionLog
             /\ \A id \in AccountIds : ~BalanceAdjusted(id)]_vars

\* the CFO has corrected an account and the correction is logged
C21_WitnessCfoCorrected ==
    /\ currentUser = CFO
    /\ Len(correctionLog) = 1
    /\ \E i \in 1..Len(accounts) :
          /\ accounts[i].id = correctionLog[1].glAccountId
          /\ LastEntry(accounts[i]).action = <<"Balance adjusted", "">>
          /\ LastEntry(accounts[i]).role = CFO

C23_EditFrame ==
    [][\A id \in AccountIds, number \in AccountNumbers :
          (InStore(id) /\ EditStep(id, [glAccountNumber |-> number]) /\ Changed(id))
          => LET before == Acct(accounts, id)
                 after == Acct(accounts', id)
             IN  /\ after.currentChecker = before.currentChecker
                 /\ after.reviewStatus = before.reviewStatus
                 /\ after.mistakeCount = before.mistakeCount
                 /\ after.normalizedBalance = before.normalizedBalance
                 /\ after.thresholdLevel = before.thresholdLevel
                 /\ after.priorityScore = before.priorityScore
                 /\ Len(after.auditLog) = Len(before.auditLog) + 1
                 /\ IsPrefix(before.auditLog, after.auditLog)
                 /\ LastEntry(after).action = <<"Details updated by CFO", "">>
                 /\ LastEntry(after).from = StageLabel(before)
                 /\ LastEntry(after).to = StageLabel(before)]_vars

\* the account under review at Checker 1 has been given another number by an Edit
C23_WitnessEditedUnderReview ==
    \E i \in 1..Len(accounts) :
        /\ accounts[i].id = 1
        /\ accounts[i].glAccountNumber = "402000"
        /\ accounts[i].currentChecker = Checker1
        /\ LastEntry(accounts[i]).action = <<"Details updated by CFO", "">>
        /\ LastEntry(accounts[i]).from = Checker1
        /\ LastEntry(accounts[i]).to = Checker1

-----------------------------------------------------------------------------
(* Normalization *)

\* normalizeAmount has returned from a call on input
Normalized(input) ==
    /\ serviceCall.fn = "normalizeAmount"
    /\ serviceCall.returned
    /\ serviceCall.input = input

\* C27: normalization is idempotent on its cleaned output: for every input text x,
\* normalize(normalize(x).cleanedValue).normalized = normalize(x).normalized,
\* for empty, unparseable and parenthesized inputs as well.
C27_NormalizeIdempotent ==
    (serviceCall.fn = "normalizeAmount" /\ serviceCall.returned)
    => normalizeAmount(serviceResult.cleanedValue, serviceCall.currencyHint).normalized
         = serviceResult.normalized

\* a parenthesized amount with a fraction has been normalized to a negative number
C27_WitnessParenthesized ==
    /\ Normalized(<<"(", "1", ",", "2", "3", "4", ".", "5", "0", ")">>)
    /\ serviceResult.normalized = Number(-12345, 1)
    /\ serviceResult.cleanedValue = <<"(", "1", "2", "3", "4", ".", "5", "0", ")">>

\* C28: "($1,234.50)", a parenthesized amount whose currency symbol follows the
\* opening parenthesis, normalizes to -1234.5 with currency <<"U", "S", "D">> and no issues.
C28_ParenthesizedCurrency ==
    (Normalized(<<"(", "$", "1", ",", "2", "3", "4", ".", "5", "0", ")">>) /\ serviceCall.currencyHint = << >>)
    => /\ serviceResult.normalized = Number(-12345, 1)
       /\ serviceResult.currency = <<"U", "S", "D">>
       /\ serviceResult.issues = << >>

-----------------------------------------------------------------------------
(* Classification *)

\* classifyGLAccount has returned or thrown
Classified == serviceCall.fn = "classifyGLAccount" /\ serviceCall.returned

\* the account number of the call is in the historical table
InHistory == Trim(serviceCall.glAccountNumber) \in OwnKeys(HISTORICAL_ACCOUNT_MAP)

\* the departments a hint can name: the synonyms and the names of the directory
RecognisedHints ==
    [name \in OwnKeys(DEPARTMENT_SYNONYMS) |-> OwnValue(DEPARTMENT_SYNONYMS, name).key]
    @@ [name \in { toLowerCase(DEPARTMENT_DIRECTORY(key).deptName) : key \in DepartmentKeys }
          |-> CHOOSE key \in DepartmentKeys :
                toLowerCase(DEPARTMENT_DIRECTORY(key).deptName) = name]

HintGiven == toLowerCase(Trim(serviceCall.providedDept))

\* the hint of the call names a department other than Unassigned
UsableHint == HintGiven \in DOMAIN RecognisedHints /\ RecognisedHints[HintGiven] # "UNASSIGNED"

\* a pattern or a keyword of some rule matches the call
SomeRuleMatches ==
    \E i \in 1..Len(CLASSIFICATION_RULES) :
        LET rule == CLASSIFICATION_RULES[i]
        IN  \/ PatternTest(rule, Trim(serviceCall.glAccountNumber))
            \/ \E k \in 1..Len(rule.keywords) :
                  Includes(toLowerCase(serviceCall.glAccountName), rule.keywords[k])

\* C24: classification follows a fixed precedence, first match wins: an account
\* number in the historical table is classified from that table (source historical,
\* the table's department and confidence) whatever the hint and the rules; otherwise
\* a recognised hint other than Unassigned gives source manual with confidence 0.88;
\* only otherwise are the rules scored.
C24_Precedence ==
    Classified
    => /\ ~serviceResult.threw
       /\ IF InHistory
          THEN LET historical == OwnValue(HISTORICAL_ACCOUNT_MAP, Trim(serviceCall.glAccountNumber))
               IN  /\ serviceResult.source = "historical"
                   /\ serviceResult.confidence = historical.confidence
                   /\ serviceResult.deptId = DEPARTMENT_DIRECTORY(historical.key).deptId
          ELSE IF UsableHint
          THEN /\ serviceResult.source = "manual"
               /\ serviceResult.confidence = 88
               /\ serviceResult.deptId = DEPARTMENT_DIRECTORY(RecognisedHints[HintGiven]).deptId
          ELSE serviceResult.source \in {"rule", "fallback"}

\* C25: with the account number not in the historical table, no usable hint and no
\* pattern or keyword of any rule matching, classification returns the Unassigned
\* department with confidence 0.35 and source fallback.
C25_FallbackWhenNothingMatches ==
    (Classified /\ ~serviceResult.threw /\ ~InHistory /\ ~UsableHint /\ ~SomeRuleMatches)
    => /\ serviceResult.deptId = "UNCLASS"
       /\ serviceResult.confidence = 35
       /\ serviceResult.source = "fallback"

\* the evidence entries of a type
EvidenceOfType(type) ==
    { i \in 1..Len(serviceResult.evidence) : serviceResult.evidence[i].type = type }

\* C26: every classification result carries a non-empty evidence list, with one
\* entry per contributing signal: the historical hit, the provided hint, each
\* pattern hit and each keyword hit, or the fallback marker.
C26_EvidenceNonEmpty ==
    (Classified /\ ~serviceResult.threw)
    => /\ serviceResult.evidence # << >>
       /\ serviceResult.source = "historical" => Cardinality(EvidenceOfType("historical")) = 1
       /\ serviceResult.source = "manual" => Cardinality(EvidenceOfType("provided")) = 1
       /\ serviceResult.source = "fallback" => Cardinality(EvidenceOfType("fallback")) = 1
       /\ serviceResult.source = "rule"
            => /\ Cardinality(EvidenceOfType("pattern")) = Len(serviceResult.patternsMatched)
               /\ Cardinality(EvidenceOfType("keyword")) = Len(serviceResult.keywordsMatched)

-----------------------------------------------------------------------------
(* Threshold level and balance-sheet summary *)

\* C29: for every balance, mistake count and review status the threshold level is
\* Critical iff |balance| >= 5,000,000 or mistakes >= 4 or the status is Mismatch;
\* otherwise Medium iff |balance| >= 1,000,000 or mistakes >= 2; otherwise Low.
C29_ThresholdLevel ==
    (serviceCall.fn = "determineThresholdLevel" /\ serviceCall.returned)
    => LET balance == serviceCall.account.normalizedBalance
           mistakes == serviceCall.account.mistakeCount
           magnitude == IF balance < 0 THEN 0 - balance ELSE balance
           critical == magnitude >= 5000000 \/ mistakes >= 4
                       \/ serviceCall.account.reviewStatus = Mismatch
           medium == magnitude >= 1000000 \/ mistakes >= 2
       IN  /\ serviceResult = "C" <=> critical
           /\ serviceResult = "M" <=> (~critical /\ medium)
           /\ serviceResult = "L" <=> (~critical /\ ~medium)

\* a small balance with three mistakes has been graded Medium, which the grading
\* by mistake count alone would make Critical
C29_WitnessThreeMistakes ==
    /\ serviceCall.fn = "determineThresholdLevel"
    /\ serviceCall.returned
    /\ serviceCall.account = [normalizedBalance |-> 0, mistakeCount |-> 3,
                              reviewStatus |-> Pending]
    /\ serviceResult = "M"

\* buildBalanceSheetSummary has returned
Summarized == serviceCall.fn = "buildBalanceSheetSummary" /\ serviceCall.returned

\* the sum of the balances of the accounts of the call in a category, whatever
\* the case it is written in
RECURSIVE CategoryTotal(_, _)
CategoryTotal(category, n) ==
    IF n = 0 THEN 0
    ELSE CategoryTotal(category, n - 1)
         + (IF toLowerCase(serviceCall.accounts[n].statusCategory) = category
            THEN serviceCall.accounts[n].normalizedBalance ELSE 0)

Imbalance ==
    CategoryTotal(<<"a", "s", "s", "e", "t", "s">>, Len(serviceCall.accounts))
    - (CategoryTotal(<<"l", "i", "a", "b", "i", "l", "i", "t", "i", "e", "s">>, Len(serviceCall.accounts))
       + CategoryTotal(<<"e", "q", "u", "i", "t", "y">>, Len(serviceCall.accounts)))

TotalsAndStatus ==
    /\ serviceResult.totalAssets = CategoryTotal(<<"a", "s", "s", "e", "t", "s">>, Len(serviceCall.accounts))
    /\ serviceResult.totalLiabilities = CategoryTotal(<<"l", "i", "a", "b", "i", "l", "i", "t", "i", "e", "s">>, Len(serviceCall.accounts))
    /\ serviceResult.totalEquity = CategoryTotal(<<"e", "q", "u", "i", "t", "y">>, Len(serviceCall.accounts))
    /\ serviceResult.status = "Balanced" <=> Abs(serviceResult.delta) < 1000
    /\ serviceResult.status \in {"Balanced", "Mismatch"}
    /\ serviceResult.status = "Mismatch" => Len(serviceResult.suggestions) = 1
    /\ serviceResult.status = "Balanced" => serviceResult.suggestions = << >>

\* C30 as stated: the summary sums normalizedBalance per status category matched
\* case-insensitively, sets delta = assets - (liabilities + equity), and reports
\* Balanced exactly when |delta| < 1, otherwise Mismatch with exactly one suggestion.
C30_BalanceSheetExact ==
    Summarized => (TotalsAndStatus /\ serviceResult.delta = Imbalance)

\* C30, amended: delta is assets - (liabilities + equity) rounded to two decimals,
\* and it is this rounded delta that is compared with 1; the totals, the status
\* and the single suggestion on a Mismatch are as stated.
C30_BalanceSheetRounded ==
    Summarized
    => /\ TotalsAndStatus
       /\ serviceResult.delta % 10 = 0
       /\ Abs(serviceResult.delta - Imbalance) <= 5

\* assets 100, liabilities 60 and equity 40 have been summarized as balanced
C30_WitnessBalanced ==
    /\ Summarized
    /\ serviceResult.totalAssets = 100000
    /\ serviceResult.totalLiabilities = 60000
    /\ serviceResult.totalEquity = 40000
    /\ serviceResult.delta = 0
    /\ serviceResult.status = "Balanced"

-----------------------------------------------------------------------------
(* Upload sessions *)

ActiveSessions == { i \in 1..Len(uploadSessions) : uploadSessions[i].status = "Active" }

\* C36: at most one upload session has the status Active, and activeUploadId is
\* null or the uploadId of the Active session, whatever uploads were completed
\* and whatever resets were made.
C36_OneActiveSession ==
    /\ Cardinality(ActiveSessions) <= 1
    /\ \/ activeUploadId = << >>
       \/ \E i \in ActiveSessions : activeUploadId = << uploadSessions[i].uploadId >>

\* a second upload was completed after a first
C36_WitnessSecondUploadActive ==
    /\ Len(uploadSessions) = 2
    /\ uploadSessions[1].status = "Archived"
    /\ uploadSessions[2].status = "Active"
    /\ activeUploadId = << uploadSessions[2].uploadId >>

-----------------------------------------------------------------------------
(* Stored severity *)

\* C33: an account whose reviewStatus is Mismatch has the stored thresholdLevel
\* Critical ("C"), so that the stored severity agrees with the threshold rules
\* after a Reject.
C33_MismatchIsCritical ==
    \A i \in 1..Len(accounts) :
        accounts[i].reviewStatus = Mismatch => accounts[i].thresholdLevel = "C"

\* C34: after a Correction the stored thresholdLevel is the level the threshold
\* rules give the account as the correction leaves it: with the new balance, the
\* incremented mistakeCount and its reviewStatus.
C34_CorrectionLevelMatchesRules ==
    [][\A id \in AccountIds :
          BalanceAdjusted(id)
          => Acct(accounts', id).thresholdLevel = determineThresholdLevel(Acct(accounts', id))]_vars

-----------------------------------------------------------------------------
(* Persistence *)

\* C35: loading the persisted store again gives every account, the finalized ones
\* too, with the currentStage, reviewStatus, mistakeCount and auditLog it had when
\* it was persisted.
C35_ReloadPreservesWorkflowState ==
    [][Reload
          => \A i \in 1..Len(accounts) :
                \E j \in 1..Len(accounts') :
                    /\ accounts'[j].id = accounts[i].id
                    /\ accounts'[j].currentChecker = accounts[i].currentChecker
                    /\ accounts'[j].reviewStatus = accounts[i].reviewStatus
                    /\ accounts'[j].mistakeCount = accounts[i].mistakeCount
                    /\ accounts'[j].auditLog = accounts[i].auditLog]_vars

-----------------------------------------------------------------------------
(* Ids of a batch *)

\* the accepted rows of the batch in the order of their acceptance: the records
\* of the file summaries, file after file
RECURSIVE AcceptedRecords(_)
AcceptedRecords(summaries) ==
    IF summaries = << >> THEN << >>
    ELSE Head(summaries).accounts \o AcceptedRecords(Tail(summaries))

\* C32: when processFilesData ends, the ids of the accepted rows of the batch are
\* consecutive integers without a gap, in the order of acceptance across the
\* files, from the maximum existing id + 1 when appending and from 1 when clearing.
C32_BatchIdsConsecutive ==
    [][ProcessedStep =>
        LET accepted == AcceptedRecords(fileSummaries')
            first == IF closure.clearPrevious THEN 1 ELSE MaxId(closure.currentAccounts) + 1
        IN  \A i \in 1..Len(accepted) : accepted[i].id = first + (i - 1)]_vars

-----------------------------------------------------------------------------
(* Reports and schedules: what a firing of the scheduler leaves behind *)

HasSchedule(list, id) == \E i \in 1..Len(list) : list[i].id = id

ScheduleOf(list, id) == list[CHOOSE i \in 1..Len(list) : list[i].id = id]

\* the report jobs of the history that carry the schedule's id
JobsFor(history, id) ==
    Cardinality({i \in 1..Len(history) : history[i].scheduleId = << id >>})

\* the step updates lastRun or nextRun of the schedule
ScheduleRun(id) ==
    /\ HasSchedule(reportSchedules, id)
    /\ HasSchedule(reportSchedules', id)
    /\ \/ ScheduleOf(reportSchedules', id).lastRun # ScheduleOf(reportSchedules, id).lastRun
       \/ ScheduleOf(reportSchedules', id).nextRun # ScheduleOf(reportSchedules, id).nextRun

\* C31: the threshold metrics and the balance-sheet summary that a render holds
\* together with an account list are the aggregates of that list, and the last
\* workbook generated holds an account list with the aggregates of that list.
C31_AggregatesOfSameSnapshot ==
    /\ renderedMetrics = MetricsOf(rendered)
    /\ renderedSummary = SummaryOf(rendered)
    /\ workbook # << >> =>
            /\ workbook.metrics = MetricsOf(workbook.accounts)
            /\ << workbook.balanceSummary >> = SummaryOf(workbook.accounts)

\* C37: every step that updates lastRun or nextRun of a schedule adds exactly one
\* report job with that schedule's id to the report history.
C37_FiringRecordsOneJob ==
    [][\A id \in ScheduleIds :
            ScheduleRun(id) =>
                JobsFor(reportHistory', id) = JobsFor(reportHistory, id) + 1]_vars

\* C38: no step changes lastRun or nextRun of a paused schedule or adds a report
\* job with its id, and a step that runs a schedule leaves it with the time of the
\* step as lastRun and a nextRun after that time.
C38_PausedNeverFiredNextRunLater ==
    [][\A id \in ScheduleIds :
            /\ (HasSchedule(reportSchedules, id) /\ ~ScheduleOf(reportSchedules, id).active) =>
                    /\ ~ScheduleRun(id)
                    /\ JobsFor(reportHistory', id) = JobsFor(reportHistory, id)
            /\ ScheduleRun(id) =>
                    /\ ScheduleOf(reportSchedules, id).active
                    /\ ScheduleOf(reportSchedules', id).lastRun = << now >>
                    /\ ScheduleOf(reportSchedules', id).nextRun > now]_vars

\* a schedule has run after it was due for more than a month, while a paused
\* schedule that was due at that time has not run
C38_WitnessPausedDueBesideFired ==
    \E id \in ScheduleIds, other \in ScheduleIds :
        /\ HasSchedule(reportSchedules, id)
        /\ HasSchedule(reportSchedules, other)
        /\ ~ScheduleOf(reportSchedules, id).active
        /\ ScheduleOf(reportSchedules, id).lastRun = << >>
        /\ ScheduleOf(reportSchedules, other).lastRun = << now >>
        /\ ScheduleOf(reportSchedules, id).nextRun < now
        /\ JobsFor(reportHistory, other) = 1
        /\ JobsFor(reportHistory, id) = 0

====
